---- MODULE Spec2Model ----
(***************************************************************************)
(* Query-generation and repair pipeline of the UCLA basketball RAG system. *)
(*                                                                         *)
(* SQL text is modelled as a sequence of lexemes (keywords, identifiers,   *)
(* quoted literals, punctuation).  The string a sequence stands for is the *)
(* concatenation of its lexemes with one blank between two adjacent        *)
(* "spaced" lexemes (words and quoted literals) and nothing between a      *)
(* punctuation lexeme and its neighbours; NL is an explicit newline and SP *)
(* an explicit blank (one that no pair of spaced lexemes accounts for).     *)
(* Every regular expression of the source is evaluated on that string.     *)
(***************************************************************************)
EXTENDS Integers, Sequences, FiniteSets, TLC

\* RAGPipeline.__init__ default table_name
table_name == "ucla_player_stats"

NL == "\n"
SP == " "

\* whitespace lexemes (\s)
Ws == {NL, SP}

\* Markdown delimiters of an LLM reply: a backtick, an opening sql fence
\* (three backticks and "sql") and a closing fence (three backticks).
BT == "<bt>"
FenceSql == "<fence-sql>"
Fence == "<fence>"

\* Lexemes that are not made of word characters (\w): punctuation, newline.
Punct == {"(", ")", ",", ";", "*", "/", "=", ">", ">=", "<=", "+", "-", "::", "/**/", "--",
          NL, SP, "\"", BT, FenceSql, Fence, "{", "}"}

\* Quoted SQL string literals '...'; each is one lexeme.
QuotedLits == {"'Totals'", "'TM'", "'Team'", "'Betts, Lauren'", "'Rice, Kiki'",
               "'Jones, Londynn'", "'7'", "'%Y'", "'%m'", "'+7 days'", "'UCLA'",
               "'vs_all_opponents'"}

IsWord(l) == l \notin Punct /\ l \notin QuotedLits

\* Words and literals are written with a blank between them.
Spaced(l) == l \notin Punct

\* str.upper() on the lexemes that occur in lower or mixed case
\* (re.IGNORECASE compares case-folded text).
Upper(l) ==
    CASE l = "select" -> "SELECT"
      [] l = "drop"   -> "DROP"
      [] l = "where"  -> "WHERE"
      [] l = "and"    -> "AND"
      [] l = "name"   -> "NAME"
      [] l = "Name"   -> "NAME"
      [] l = "No"     -> "NO"
      [] l = "to"     -> "TO"
      [] l = "avg"    -> "AVG"
      [] l = "ilike"  -> "ILIKE"
      [] OTHER        -> l

\* Index of the first lexeme at or after i that is not whitespace (\s*).
RECURSIVE SkipWs(_, _)
SkipWs(s, i) == IF i <= Len(s) /\ s[i] \in Ws THEN SkipWs(s, i + 1) ELSE i

\* \s+ right after lexeme i: whitespace, or the blank between spaced lexemes.
WsAfter(s, i) ==
    /\ i < Len(s)
    /\ \/ s[i + 1] \in Ws
       \/ Spaced(s[i]) /\ Spaced(s[i + 1])

\* No newline among s[i..j] ('.' without re.DOTALL does not match newline).
NoNL(s, i, j) == \A k \in i..j : s[k] # NL

\* count of a lexeme in a string (str.count)
Count(s, l) == Cardinality({i \in 1..Len(s) : s[i] = l})

(***************************************************************************)
(* DatabaseConnector._is_dangerous_query                                   *)
(***************************************************************************)
MutatingKeywords == {"DROP", "DELETE", "UPDATE", "INSERT", "CREATE", "ALTER"}

\* r';\s*(DROP|DELETE|UPDATE|INSERT|CREATE|ALTER)\s+'
MatchesSeparatorMutating(q) ==
    \E i \in 1..Len(q) :
        /\ q[i] = ";"
        /\ LET j == SkipWs(q, i + 1)
           IN  /\ j <= Len(q)
               /\ Upper(q[j]) \in MutatingKeywords
               /\ WsAfter(q, j)

\* r'UNION\s+SELECT.*--'
MatchesUnionComment(q) ==
    \E i \in 1..Len(q) :
        /\ Upper(q[i]) = "UNION"
        /\ WsAfter(q, i)
        /\ LET j == SkipWs(q, i + 1)
           IN  /\ j <= Len(q)
               /\ Upper(q[j]) = "SELECT"
               /\ \E k \in (j + 1)..Len(q) : q[k] = "--" /\ NoNL(q, j + 1, k)

_is_dangerous_query(q) == MatchesSeparatorMutating(q) \/ MatchesUnionComment(q)

(***************************************************************************)
(* SQLQueryGenerator.validate_sql                                          *)
(***************************************************************************)
\* sql_query.strip() == ""
IsBlank(s) == \A i \in 1..Len(s) : s[i] \in Ws

\* \bW\b with re.IGNORECASE; adjacent lexemes never join into one word.
HasWord(s, w) == \E i \in 1..Len(s) : Upper(s[i]) = w

\* r'GROUP\s+BY.*?AVG\s*\([^)]+\)'; dotall tells whether '.' matches newline.
MatchesAggInGroupBy(s, dotall) ==
    \E g \in 1..Len(s) :
        /\ Upper(s[g]) = "GROUP"
        /\ WsAfter(s, g)
        /\ LET b == SkipWs(s, g + 1)
           IN  /\ b <= Len(s)
               /\ Upper(s[b]) = "BY"
               /\ \E a \in (b + 1)..Len(s) :
                    /\ Upper(s[a]) = "AVG"
                    /\ dotall \/ NoNL(s, b + 1, a - 1)
                    /\ LET p == SkipWs(s, a + 1)
                       IN  /\ p <= Len(s)
                           /\ s[p] = "("
                           /\ \E c \in (p + 2)..Len(s) :
                                /\ s[c] = ")"
                                /\ \A k \in (p + 1)..(c - 1) : s[k] # ")"

\* r'WHERE.*?WITH\s+\w+\s+AS\s*\('
MatchesCteInWhere(s, dotall) ==
    \E w \in 1..Len(s) :
        /\ Upper(s[w]) = "WHERE"
        /\ \E t \in (w + 1)..Len(s) :
             /\ Upper(s[t]) = "WITH"
             /\ dotall \/ NoNL(s, w + 1, t - 1)
             /\ WsAfter(s, t)
             /\ LET n == SkipWs(s, t + 1)
                IN  /\ n <= Len(s)
                    /\ IsWord(s[n])
                    /\ WsAfter(s, n)
                    /\ LET a == SkipWs(s, n + 1)
                       IN  /\ a <= Len(s)
                           /\ Upper(s[a]) = "AS"
                           /\ LET p == SkipWs(s, a + 1)
                              IN  p <= Len(s) /\ s[p] = "("

Accepted == [ok |-> TRUE, error |-> "None"]
Rejected(msg) == [ok |-> FALSE, error |-> msg]

\* the same rules with the table reference checked before the SELECT keyword
ValidateTableBeforeSelect(s) ==
    IF s = <<>> \/ IsBlank(s) THEN Rejected("Empty SQL query")
    ELSE IF HasWord(s, "EXTRACT") THEN Rejected("EXTRACT not supported in SQLite")
    ELSE IF HasWord(s, "INTERVAL") THEN Rejected("INTERVAL not supported in SQLite")
    ELSE IF HasWord(s, "STDDEV") THEN Rejected("STDDEV not supported in SQLite")
    ELSE IF HasWord(s, "ILIKE") THEN Rejected("ILIKE not supported in SQLite")
    ELSE IF \E i \in 1..Len(s) : s[i] = "::"
        THEN Rejected("PostgreSQL casting (::) not supported")
    ELSE IF MatchesAggInGroupBy(s, FALSE)
        THEN Rejected("Aggregate functions not allowed in GROUP BY")
    ELSE IF MatchesCteInWhere(s, FALSE)
        THEN Rejected("CTE cannot be used inside WHERE clause")
    ELSE IF \A i \in 1..Len(s) : s[i] # table_name
        THEN Rejected("Query must reference table")
    ELSE IF ~HasWord(s, "SELECT") THEN Rejected("Query must contain SELECT")
    ELSE Accepted

validate_sql(s) ==
    IF s = <<>> \/ IsBlank(s) THEN Rejected("Empty SQL query")
    ELSE IF HasWord(s, "EXTRACT") THEN Rejected("EXTRACT not supported in SQLite")
    ELSE IF HasWord(s, "INTERVAL") THEN Rejected("INTERVAL not supported in SQLite")
    ELSE IF HasWord(s, "STDDEV") THEN Rejected("STDDEV not supported in SQLite")
    ELSE IF HasWord(s, "ILIKE") THEN Rejected("ILIKE not supported in SQLite")
    ELSE IF \E i \in 1..Len(s) : s[i] = "::"
        THEN Rejected("PostgreSQL casting (::) not supported")
    ELSE IF MatchesAggInGroupBy(s, FALSE)
        THEN Rejected("Aggregate functions not allowed in GROUP BY")
    ELSE IF MatchesCteInWhere(s, FALSE)
        THEN Rejected("CTE cannot be used inside WHERE clause")
    ELSE IF ~HasWord(s, "SELECT") THEN Rejected("Query must contain SELECT")
    ELSE IF \A i \in 1..Len(s) : s[i] # table_name
        THEN Rejected("Query must reference table")
    ELSE Accepted


(***************************************************************************)
(* Python values that are not SQL text                                     *)
(***************************************************************************)
\* Python's None where a SQL string is expected.
None == <<"<None>">>

\* bool(x) is False: None or the empty string.
Falsy(s) == s = None \/ s = <<>>

\* str.strip(): whitespace at both ends removed.
RECURSIVE StripLeft(_)
StripLeft(s) == IF s # <<>> /\ Head(s) \in Ws THEN StripLeft(Tail(s)) ELSE s

RECURSIVE StripRight(_)
StripRight(s) ==
    IF s # <<>> /\ s[Len(s)] \in Ws THEN StripRight(SubSeq(s, 1, Len(s) - 1)) ELSE s

Strip(s) == StripRight(StripLeft(s))

\* Smallest element of a non-empty set of integers.
Min(S) == CHOOSE x \in S : \A y \in S : x <= y

\* x = v followed by Op(x): an assignment evaluates its right-hand side once.
Bind(v, Op(_)) == CHOOSE r \in {Op(x) : x \in {v}} : TRUE

(***************************************************************************)
(* SQLQueryGenerator._extract_sql                                          *)
(***************************************************************************)
HasBacktick(l) == l \in {BT, Fence, FenceSql}

_extract_sql(response) ==
    LET n == Len(response)
        sqlFences == {i \in 1..n : response[i] = FenceSql /\
                        \E j \in (i + 1)..n : response[j] \in {Fence, FenceSql}}
        ticks == {i \in 1..n : HasBacktick(response[i])}
        selects == {i \in 1..n : Upper(response[i]) = "SELECT"}
    IN
    IF response = <<>> THEN <<>>
    \* r'```sql\s*(.*?)\s*```'
    ELSE IF sqlFences # {} THEN
        LET i == Min(sqlFences)
            j == Min({k \in (i + 1)..n : response[k] \in {Fence, FenceSql}})
        IN  Strip(SubSeq(response, i + 1, j - 1))
    \* r'`(.*?)`': the first two backticks; a fence holds three of them
    ELSE IF ticks # {} /\ (response[Min(ticks)] # BT \/ Cardinality(ticks) > 1) THEN
        LET i == Min(ticks)
        IN  IF response[i] # BT THEN <<>>
            ELSE Strip(SubSeq(response, i + 1, Min(ticks \ {i}) - 1))
    \* r'(SELECT.*?;?)\s*$'
    ELSE IF selects # {} THEN Strip(SubSeq(response, Min(selects), n))
    \* re.sub(r'^[^S]*?(SELECT)', ...) changes nothing without a SELECT
    ELSE Strip(response)


(***************************************************************************)
(* SQLQueryGenerator._fix_sqlite_compatibility: the rewrite table          *)
(***************************************************************************)
DQ == "\""

HasQuote(l) == l \in QuotedLits \/ l = DQ

\* '(\d+)': a quoted literal holding digits only
DigitLits == {"'7'"}

CastTypes == {"text", "integer", "float", "date"}

\* lexemes matching FROM|WHERE|ORDER|GROUP, '(' or ',' in the lookahead of TO
ToLookahead == {"(", ",", "FROM", "WHERE", "where", "ORDER", "GROUP", "GROUP_CONCAT"}

\* lexemes starting with '=', '>', '<' or IN (case-insensitive) in the lookahead of No
NoLookahead == {"=", ">", ">=", "<", "IN", "INTERVAL", "INSERT", "integer"}

\* The group ([^)]+) that follows lexeme f and the whitespace after it
\* (\s+ when minWs = 1, \s* when minWs = 0) and ends before the next ')':
\* [from, close], or close = 0 when there is none.  The group holds at
\* least one character, so when only whitespace precedes ')' the group is
\* the last of them.
GroupToClose(s, f, minWs) ==
    LET g == SkipWs(s, f + 1)
        closes == {c \in g..Len(s) : s[c] = ")"}
    IN  IF closes = {} THEN [from |-> 0, close |-> 0]
        ELSE LET c == Min(closes)
             IN  IF g < c THEN [from |-> g, close |-> c]
                 ELSE IF c - f - 1 >= minWs + 1 THEN [from |-> c - 1, close |-> c]
                 ELSE [from |-> 0, close |-> 0]

\* EXTRACT\s*\(\s*<unit>\s+FROM\s+([^)]+)\) starting at lexeme i
ExtractMatch(s, i, unit) ==
    LET p == SkipWs(s, i + 1)
        u == SkipWs(s, p + 1)
        f == SkipWs(s, u + 1)
    IN  IF /\ Upper(s[i]) = "EXTRACT"
           /\ p <= Len(s) /\ s[p] = "("
           /\ u <= Len(s) /\ Upper(s[u]) = unit /\ WsAfter(s, u)
           /\ f <= Len(s) /\ Upper(s[f]) = "FROM" /\ WsAfter(s, f)
        THEN GroupToClose(s, f, 1)
        ELSE [from |-> 0, close |-> 0]

\* ([^'\"]+)\s*\+\s*INTERVAL\s+'(\d+)'\s*DAY with the group starting at lexeme i
IntervalMatch(s, i) ==
    LET quotes == {q \in i..Len(s) : HasQuote(s[q])}
        q == IF quotes = {} THEN 0 ELSE Min(quotes)
        plus == {p \in (i + 1)..(q - 1) :
                    /\ s[p] = "+"
                    /\ LET k == SkipWs(s, p + 1)
                       IN  /\ k < q
                           /\ Upper(s[k]) = "INTERVAL"
                           /\ WsAfter(s, k)
                           /\ SkipWs(s, k + 1) = q}
        d == SkipWs(s, q + 1)
    IN  IF /\ q > i
           /\ s[q] \in DigitLits
           /\ plus # {}
           /\ d <= Len(s) /\ Upper(s[d]) = "DAY"
        THEN [plus |-> Min(plus), lit |-> q, end |-> d]
        ELSE [plus |-> 0, lit |-> 0, end |-> 0]

\* '+\2 days' for the digits of a literal
DaysLit(l) == "'+7 days'"

\* \bSTDDEV\s*\(\s*([^)]+)\s*\) starting at lexeme i
StddevMatch(s, i) ==
    LET p == SkipWs(s, i + 1)
    IN  IF Upper(s[i]) = "STDDEV" /\ p <= Len(s) /\ s[p] = "("
        THEN GroupToClose(s, p, 0)
        ELSE [from |-> 0, close |-> 0]

\* ""([^"]+)"" starting at lexeme i: index of the closing pair, or 0
DoubledQuoteMatch(s, i) ==
    IF i + 1 <= Len(s) /\ s[i] = DQ /\ s[i + 1] = DQ
    THEN LET ends == {e \in (i + 3)..(Len(s) - 1) : s[e] = DQ /\ s[e + 1] = DQ}
             inner == {e \in (i + 2)..Len(s) : s[e] = DQ}
         IN  IF ends # {} /\ Min(ends) = Min(inner) THEN Min(ends) ELSE 0
    ELSE 0

\* Lexeme i wrapped in double quotes.  The blank that separated the bare word
\* from a spaced neighbour stays in the string, now next to a quote.
Quoted(s, i, word) ==
    (IF i > 1 /\ Spaced(s[i - 1]) THEN <<SP>> ELSE <<>>)
    \o <<DQ, word, DQ>>
    \o (IF i < Len(s) /\ Spaced(s[i + 1]) THEN <<SP>> ELSE <<>>)

\* One rule at lexeme i: [end |-> last lexeme of the match (0: no match),
\* out |-> replacement text].
RuleAt(rule, s, i) ==
    LET no == [end |-> 0, out |-> <<>>]
        nxt == SkipWs(s, i + 1)
    IN
    CASE rule = "extract_year" ->
            LET m == ExtractMatch(s, i, "YEAR")
            IN  IF m.close = 0 THEN no
                ELSE [end |-> m.close,
                      out |-> <<"strftime", "(", "'%Y'", ",">>
                              \o SubSeq(s, m.from, m.close - 1) \o <<")">>]
      [] rule = "extract_month" ->
            LET m == ExtractMatch(s, i, "MONTH")
            IN  IF m.close = 0 THEN no
                ELSE [end |-> m.close,
                      out |-> <<"strftime", "(", "'%m'", ",">>
                              \o SubSeq(s, m.from, m.close - 1) \o <<")">>]
      [] rule = "interval" ->
            LET m == IntervalMatch(s, i)
            IN  IF m.end = 0 THEN no
                ELSE [end |-> m.end,
                      out |-> <<"date", "(">> \o SubSeq(s, i, m.plus - 1)
                              \o <<",", DaysLit(s[m.lit]), ")">>]
      [] rule = "cast" ->
            IF s[i] = "::" /\ i < Len(s) /\ s[i + 1] \in CastTypes
            THEN [end |-> i + 1, out |-> <<>>] ELSE no
      [] rule = "ilike" ->
            IF Upper(s[i]) = "ILIKE" THEN [end |-> i, out |-> <<"LIKE">>] ELSE no
      [] rule = "stddev" ->
            LET m == StddevMatch(s, i)
                g == SubSeq(s, m.from, m.close - 1)
            IN  IF m.close = 0 THEN no
                ELSE [end |-> m.close,
                      out |-> <<"SQRT", "(", "AVG", "(", "(">> \o g
                              \o <<"-", "sub_avg", ")", "*", "(">> \o g
                              \o <<"-", "sub_avg", ")", ")", ")">>]
      [] rule = "3PTM" ->
            IF s[i] = "3PTM" THEN [end |-> i, out |-> Quoted(s, i, "3PTM")] ELSE no
      [] rule = "3PTA" ->
            IF s[i] = "3PTA" THEN [end |-> i, out |-> Quoted(s, i, "3PTA")] ELSE no
      [] rule = "TO" ->
            IF Upper(s[i]) = "TO" /\ (nxt > Len(s) \/ s[nxt] \notin ToLookahead)
            THEN [end |-> i, out |-> Quoted(s, i, "TO")] ELSE no
      [] rule = "No" ->
            IF Upper(s[i]) = "NO" /\ nxt <= Len(s) /\ s[nxt] \in NoLookahead
            THEN [end |-> i, out |-> Quoted(s, i, "No")] ELSE no
      [] rule = "where_paren" ->
            IF Upper(s[i]) = "WHERE" /\ nxt <= Len(s) /\ s[nxt] = ")"
            THEN [end |-> nxt, out |-> <<")">>] ELSE no
      [] rule = "where_and" ->
            IF Upper(s[i]) = "WHERE" /\ nxt <= Len(s) /\ Upper(s[nxt]) = "AND"
            THEN [end |-> nxt, out |-> <<"WHERE">>] ELSE no
      [] rule = "doubled_quotes" ->
            LET e == DoubledQuoteMatch(s, i)
            IN  IF e = 0 THEN no
                ELSE [end |-> e + 1, out |-> <<DQ>> \o SubSeq(s, i + 2, e - 1) \o <<DQ>>]
      [] rule = "cte_with" ->
            \* r'WITH\s+\w+\s+AS\s*\(' -> '('
            LET n == nxt
                a == SkipWs(s, n + 1)
                p == SkipWs(s, a + 1)
            IN  IF /\ Upper(s[i]) = "WITH" /\ WsAfter(s, i)
                   /\ n <= Len(s) /\ IsWord(s[n]) /\ WsAfter(s, n)
                   /\ a <= Len(s) /\ Upper(s[a]) = "AS"
                   /\ p <= Len(s) /\ s[p] = "("
                THEN [end |-> p, out |-> <<"(">>] ELSE no
      [] rule = "player_filter" ->
            \* r"WHERE.*?Name.*?=.*?'[^']*'.*?AND" -> "WHERE" (RAGPipeline._handle_empty)
            LET first(S) == IF S = {} THEN 0 ELSE Min(S)
                n == first({k \in (i + 1)..Len(s) : Upper(s[k]) = "NAME"})
                e == IF n = 0 THEN 0
                     ELSE first({k \in (n + 1)..Len(s) : s[k] \in {"=", ">=", "<="}})
                l == IF e = 0 THEN 0
                     ELSE first({k \in (e + 1)..Len(s) : s[k] \in QuotedLits})
                a == IF l = 0 THEN 0
                     ELSE first({k \in (l + 1)..Len(s) : Upper(s[k]) = "AND"})
            IN  IF Upper(s[i]) = "WHERE" /\ a > 0 /\ NoNL(s, i, a)
                THEN [end |-> a, out |-> <<"WHERE">>] ELSE no
      [] OTHER -> no

\* re.sub(pattern, replacement, s): every non-overlapping match from the
\* left, scanning from lexeme i on.
RECURSIVE SubFrom(_, _, _)
SubFrom(rule, s, i) ==
    Bind({j \in i..Len(s) : RuleAt(rule, s, j).end > 0}, LAMBDA starts :
        IF starts = {} THEN SubSeq(s, i, Len(s))
        ELSE Bind(Min(starts), LAMBDA j :
             Bind(RuleAt(rule, s, j), LAMBDA m :
             Bind(m.end + 1, LAMBDA next :
                 SubSeq(s, i, j - 1) \o m.out \o SubFrom(rule, s, next)))))

Sub(rule, s) == Bind(s, LAMBDA t : SubFrom(rule, t, 1))

\* the replacements without the two date-extraction entries
ReplacementsWithoutExtract == <<"interval", "cast", "ilike", "stddev", "3PTM", "3PTA", "TO", "No">>

\* the replacements dict, in insertion order
Replacements == <<"extract_year", "extract_month", "interval", "cast", "ilike",
                  "stddev", "3PTM", "3PTA", "TO", "No">>

\* the three "Fix syntax issues" substitutions
SyntaxFixes == <<"where_paren", "where_and", "doubled_quotes">>

RECURSIVE ApplyRules(_, _)
ApplyRules(rules, s) ==
    IF rules = <<>> THEN s
    ELSE Bind(Sub(Head(rules), s), LAMBDA t : ApplyRules(Tail(rules), t))


(***************************************************************************)
(* Canonical hand-written queries                                          *)
(***************************************************************************)
ExcludeTotals == <<"Name", "NOT", "IN", "(", "'Totals'", ",", "'TM'", ",", "'Team'", ")">>

\* SQLQueryGenerator._fix_opponent_query
_fix_opponent_query ==
    <<"SELECT", NL,
      "'vs_all_opponents'", "as", "analysis_type", ",", NL,
      "COUNT", "(", "*", ")", "as", "games_played", ",", NL,
      "ROUND", "(", "AVG", "(", "Pts", ")", ",", "1", ")", "as", "avg_points", ",", NL,
      "ROUND", "(", "AVG", "(", "Reb", ")", ",", "1", ")", "as", "avg_rebounds", ",", NL,
      "ROUND", "(", "CAST", "(", "SUM", "(", "FGM", ")", "AS", "REAL", ")", "/",
          "NULLIF", "(", "SUM", "(", "FGA", ")", ",", "0", ")", "*", "100", ",", "1", ")",
          "as", "fg_percentage", ",", NL,
      "ROUND", "(", "AVG", "(", "Blk", ")", ",", "1", ")", "as", "avg_blocks", ",", NL,
      "GROUP_CONCAT", "(", "DISTINCT", "Opponent", ")", "as", "opponents_faced", NL,
      "FROM", table_name, NL,
      "WHERE", "Name", "=", "'Betts, Lauren'", NL,
      "AND">> \o ExcludeTotals

\* the SELECT list and FROM ... WHERE head shared by the two close-games queries
CloseGamesHead ==
    <<"SELECT", NL,
      "Name", ",", NL,
      "COUNT", "(", "*", ")", "as", "games_played", ",", NL,
      "ROUND", "(", "AVG", "(", "Pts", ")", ",", "1", ")", "as", "avg_pts", ",", NL,
      "ROUND", "(", "AVG", "(", "Ast", ")", ",", "1", ")", "as", "avg_ast", ",", NL,
      "ROUND", "(", "AVG", "(", "Reb", ")", ",", "1", ")", "as", "avg_reb", ",", NL,
      "ROUND", "(", "AVG", "(", DQ, "TO", DQ, ")", ",", "1", ")", "as", "avg_to", ",", NL,
      "ROUND", "(", "CAST", "(", "SUM", "(", "FGM", ")", "AS", "REAL", ")", "/",
          "NULLIF", "(", "SUM", "(", "FGA", ")", ",", "0", ")", "*", "100", ",", "1", ")",
          "as", "fg_pct", ",", NL,
      "ROUND", "(", "CAST", "(", "SUM", "(", DQ, "3PTM", DQ, ")", "AS", "REAL", ")", "/",
          "NULLIF", "(", "SUM", "(", DQ, "3PTA", DQ, ")", ",", "0", ")", "*", "100", ",",
          "1", ")", "as", "three_pt_pct", NL,
      "FROM", table_name, NL,
      "WHERE", "Name", "IN", "(", "'Rice, Kiki'", ",", "'Jones, Londynn'", ")", NL,
      "AND">> \o ExcludeTotals \o <<NL>>

CloseGamesTail == <<"GROUP", "BY", "Name", NL, "ORDER", "BY", "avg_pts", "DESC">>

\* SQLQueryGenerator._generate_close_games_query
_generate_close_games_query == CloseGamesHead \o CloseGamesTail

\* the canonical query returned by SQLQueryGenerator._fix_cte_in_where
CteCloseGamesQuery ==
    CloseGamesHead
    \o <<"AND", "game_date", "IN", "(", NL,
         "SELECT", "game_date", NL,
         "FROM", table_name, NL,
         "WHERE", "Name", "=", "'Totals'", NL,
         "AND", "Pts", "BETWEEN", "70", "AND", "90", NL,
         ")", NL>>
    \o CloseGamesTail

\* lexemes whose lower-cased text contains the given fragment
ContainsOpponentStrength(l) == l \in {"opponent_strength", "Opponent_Strength"}
ContainsClose(l) == l \in {"close_games", "Close"}
ContainsRiceOrJones(l) == l \in {"'Rice, Kiki'", "'Jones, Londynn'"}

\* SQLQueryGenerator._fix_cte_in_where
_fix_cte_in_where(s) ==
    IF /\ \E i \in 1..Len(s) : ContainsClose(s[i])
       /\ \E i \in 1..Len(s) : ContainsRiceOrJones(s[i])
    THEN CteCloseGamesQuery
    ELSE Sub("cte_with", s)

\* sql_query += ')' * n
RECURSIVE Closes(_)
Closes(n) == IF n <= 0 THEN <<>> ELSE <<")">> \o Closes(n - 1)

\* re.sub(r'\)\s*$', '', sql_query, count=k): the pattern is anchored at the
\* end of the string, so it matches at most once whatever the count.
StripTrailingClose(s, k) ==
    LET t == StripRight(s)
    IN  IF k >= 1 /\ t # <<>> /\ t[Len(t)] = ")" THEN SubSeq(t, 1, Len(t) - 1) ELSE s

\* the "Fix parentheses balance" block
BalanceParens(s) ==
    LET open_parens == Count(s, "(")
        close_parens == Count(s, ")")
    IN  IF open_parens > close_parens THEN s \o Closes(open_parens - close_parens)
        ELSE IF close_parens > open_parens
            THEN StripTrailingClose(s, close_parens - open_parens)
        ELSE s

\* SQLQueryGenerator._fix_sqlite_compatibility
_fix_sqlite_compatibility(sql_query) ==
    IF Falsy(sql_query) THEN sql_query
    ELSE
    Bind(IF /\ MatchesAggInGroupBy(sql_query, TRUE)
            /\ \E i \in 1..Len(sql_query) : ContainsOpponentStrength(sql_query[i])
         THEN _fix_opponent_query ELSE sql_query, LAMBDA s1 :
    Bind(IF MatchesCteInWhere(s1, TRUE) THEN _fix_cte_in_where(s1) ELSE s1, LAMBDA s2 :
    Bind(ApplyRules(Replacements, s2), LAMBDA s3 :
    Bind(ApplyRules(SyntaxFixes, s3), LAMBDA s4 :
         BalanceParens(s4)))))


(***************************************************************************)
(* User questions and entities                                             *)
(***************************************************************************)
\* A question is the set of word forms that occur in it.
Lower(w) ==
    CASE w = "Close"   -> "close"
      [] w = "Kiki"    -> "kiki"
      [] w = "Average" -> "average"
      [] OTHER         -> w

\* sub in user_query.lower()
InLower(sub, user_query) == \E w \in user_query : Lower(w) = sub

\* name in user_query (case-sensitive)
InQuery(name, user_query) == name \in user_query

\* Python's truthiness of entities and of entities.get("player_names"):
\* entities is [kind |-> "dict", player_names |-> <<...>>], or the value
\* None, or some other object that is no dict.
EntitiesOf(names) == [kind |-> "dict", player_names |-> names]
NoneEntities == [kind |-> "none", player_names |-> <<>>]
OtherEntities == [kind |-> "other", player_names |-> <<>>]

\* a non-empty dict that is no falsy value; a dict without player_names
\* still carries its other keys or is empty (falsy): both give no names
HasPlayerNames(entities) == entities.kind = "dict" /\ entities.player_names # <<>>

\* evaluating entities.get(...) raises AttributeError on a non-dict object
GetRaises(entities) == entities.kind = "other"

\* 'name' as a quoted SQL literal
Lit(name) ==
    CASE name = "Betts, Lauren"  -> "'Betts, Lauren'"
      [] name = "Rice, Kiki"     -> "'Rice, Kiki'"
      [] name = "Jones, Londynn" -> "'Jones, Londynn'"

\* "', '".join(names) between the quotes of ('...')
RECURSIVE NameList(_)
NameList(names) ==
    IF Len(names) = 1 THEN <<Lit(names[1])>>
    ELSE <<Lit(names[1]), ",">> \o NameList(Tail(names))

(***************************************************************************)
(* RAGPipeline: the fallback templates                                     *)
(***************************************************************************)
AvgTemplate(col, alias, player_filter) ==
    <<NL, "SELECT", "Name", ",", "ROUND", "(", "AVG", "(", col, ")", ",", "2", ")",
      "as", alias, NL,
      "FROM", table_name, NL,
      "WHERE">> \o ExcludeTotals \o player_filter \o
    <<NL, "GROUP", "BY", "Name", NL,
      "ORDER", "BY", alias, "DESC", NL,
      "LIMIT", "10", NL>>

\* RAGPipeline._simple_aggregation_query; None when no template applies
_simple_aggregation_query(user_query, entities) ==
    LET player_filter ==
            IF HasPlayerNames(entities)
            THEN <<"AND", "Name", "IN", "(">> \o NameList(entities.player_names) \o <<")">>
            ELSE <<>>
    IN  IF InLower("average", user_query) \/ InLower("avg", user_query)
        THEN IF InLower("points", user_query)
                THEN AvgTemplate("Pts", "avg_points", player_filter)
             ELSE IF InLower("rebounds", user_query)
                THEN AvgTemplate("Reb", "avg_rebounds", player_filter)
             ELSE None
        ELSE None

\* RAGPipeline._basic_player_query
_basic_player_query(user_query, entities) ==
    IF HasPlayerNames(entities)
    THEN <<NL, "SELECT", "Name", ",", "Pts", ",", "Reb", ",", "Ast", ",", DQ, "TO", DQ, ",",
           "Stl", ",", "Blk", ",", "Opponent", ",", "game_date", NL,
           "FROM", table_name, NL,
           "WHERE", "Name", "IN", "(">> \o NameList(entities.player_names) \o
         <<")", "AND">> \o ExcludeTotals \o
         <<NL, "ORDER", "BY", "game_date", "DESC", NL,
           "LIMIT", "20", NL>>
    ELSE None

\* RAGPipeline._top_performers_query
_top_performers_query(user_query, entities) ==
    IF InLower("best", user_query) \/ InLower("top", user_query)
    THEN <<NL, "SELECT", "Name", ",", "AVG", "(", "Pts", ")", "as", "avg_points", ",",
           "AVG", "(", "Reb", ")", "as", "avg_rebounds", ",",
           "AVG", "(", "Ast", ")", "as", "avg_assists", NL,
           "FROM", table_name, NL,
           "WHERE">> \o ExcludeTotals \o
         <<NL, "GROUP", "BY", "Name", NL,
           "ORDER", "BY", "avg_points", "DESC", NL,
           "LIMIT", "10", NL>>
    ELSE None

\* the fallbacks list of RAGPipeline._try_fallback, in its order
NumFallbacks == 3


\* the fallbacks list with the player lookup first
FallbackSqlPlayerFirst(k, user_query, entities) ==
    CASE k = 1 -> _basic_player_query(user_query, entities)
      [] k = 2 -> _simple_aggregation_query(user_query, entities)
      [] k = 3 -> _top_performers_query(user_query, entities)

FallbackSql(k, user_query, entities) ==
    CASE k = 1 -> _simple_aggregation_query(user_query, entities)
      [] k = 2 -> _basic_player_query(user_query, entities)
      [] k = 3 -> _top_performers_query(user_query, entities)

\* fallback k touches entities.get before anything else can return
FallbackReadsEntities(k) == k \in {1, 2}

\* SQLQueryGenerator._is_close_games_query
_is_close_games_query(user_query) ==
    /\ InLower("close", user_query)
    /\ InLower("games", user_query)
    /\ \E name \in {"Rice", "Jones", "Kiki", "Londynn"} : InQuery(name, user_query)

\* the re.sub of RAGPipeline._handle_empty
RelaxPlayerFilter(sql_query) == Sub("player_filter", sql_query)


(***************************************************************************)
(* Bounds of the model                                                     *)
(***************************************************************************)
\* most word forms in one question
MaxQueryWords == 3

\* most rows one execution returns
MaxRows == 6

\* word forms a question is made of
Vocabulary == {"Close", "games", "Kiki", "Average", "points", "top"}

Questions == {q \in SUBSET Vocabulary : Cardinality(q) <= MaxQueryWords}

\* row counts an execution may return
RowCounts == {0, 1, MaxRows}

Rows(n) == [i \in 1..n |-> "row"]

\* resolved player names the entity extractor may return
ResolvedNames == {<<>>, <<"Betts, Lauren">>, <<"Rice, Kiki", "Jones, Londynn">>}

T == table_name

\* texts the LLM may answer a SQL-generation prompt with
LLMReplies ==
    { <<"SELECT", "*", "FROM", T>>,
      <<FenceSql, NL, "SELECT", "Pts", "FROM", T, "WHERE", "Name", "=", "'Betts, Lauren'",
        "AND", "Pts", ">", "10", NL, Fence>>,
      <<"SELECT", "Pts", "FROM", T, NL, "WHERE", "Name", "=", "'Betts, Lauren'">>,
      <<"Here", BT, "SELECT", "EXTRACT", "(", "YEAR", "FROM", "game_date", ")", "FROM", T, BT>>,
      <<"SELECT", "Pts", "::", "numeric", "FROM", T>>,
      <<"Sorry", "I", "cannot">>,
      <<>>,
      <<"SELECT", "*", "FROM", T, ";", "DROP", "TABLE", T>>,
      <<"SELECT", "*", "FROM", T, ";", "DROP", "/**/", "TABLE", T>>,
      <<"SELECT", "Pts", "FROM", "game_log", "WHERE", "Name", "=", "'Betts, Lauren'", "OR",
        "Pts", "IN", "(", "SELECT", "Pts", "FROM", T, ")", "AND", "Pts", ">", "10">> }

(***************************************************************************)
(* State                                                                   *)
(***************************************************************************)
VARIABLES
    env,          \* "contract": collaborators keep their interface; "any": they may return anything
    user_query,   \* the question given to process_query
    conn,         \* DatabaseConnector.conn: "open" or "none"
    pc,           \* position in process_query
    entities,     \* local entities
    retry_count,  \* generate_sql_query's retry_count
    sql_query,    \* local sql_query (the candidate, then the primary SQL)
    genCalls,     \* llm.generate_text calls made by generate_sql_query
    narrCalls,    \* llm.generate_text calls made by _generate_response
    accepted,     \* SQL strings validate_sql has accepted in this invocation
    executed,     \* calls of db.execute_query, in order
    cursorLog,    \* SQL strings handed to cursor.execute
    fbIdx,        \* index of the fallback _try_fallback is at
    fbReason,     \* the error process_query keeps for the case that _try_fallback fails
    results,      \* local results of process_query: rows of the primary execution
    returned,     \* "nothing", "envelope" or "exception"
    envelope,     \* the dict process_query returned
    original,     \* a direct call of a method: the SQL string it was given
    validation,   \* a direct call of validate_sql: the (is_valid, error) it returned
    requests,     \* process_with_rag_pipeline: the locals of each request in flight
    objects       \* process_with_rag_pipeline: the heap of the objects the requests built

vars == <<env, user_query, conn, pc, entities, retry_count, sql_query, genCalls,
          narrCalls, accepted, executed, cursorLog, fbIdx, fbReason, results,
          returned, envelope, original, validation,
          requests, objects>>


\* a retry ceiling one too high
RetryCeilingOffByOne == 2 + 1

\* retry_count < 2 in generate_sql_query
MaxRetries == 2

\* results[:5] in _handle_empty
RecoveryRowLimit == 5

(***************************************************************************)
(* Values                                                                  *)
(***************************************************************************)
Text(parts) == [text |-> TRUE, parts |-> parts]
NonText == [text |-> FALSE, parts |-> <<>>]

DefaultErrorMessage == "There was an error processing your question. Please try again."
UnexpectedMessage ==
    "I encountered an unexpected error. Please try again or rephrase your question."
NoDataMessage ==
    "I couldn't find any data matching your criteria. Please try rephrasing your question."
FallbackNote == "\n\n(Note: Used a simplified query due to complexity.)"
RecoveryPrefix ==
    "I couldn't find specific data for that player. Here's what I found instead:\n"

\* no call of validate_sql was made
NoVerdict == [ok |-> FALSE, error |-> "<no call>"]

\* the dict has no "error" key
NoError == <<>>

\* f"{prefix}: {detail}"
ErrorText(prefix, detail) == <<prefix, detail>>

NoEnvelope ==
    [error |-> NoError, sql_query |-> None, query_results |-> None,
     response |-> NonText, success |-> FALSE, fallback_used |-> FALSE]

\* an error dict whose response is the error itself
ErrorResponseWithDetail(error, user_message) ==
    [error |-> error, sql_query |-> None, query_results |-> None,
     response |-> Text(error), success |-> FALSE, fallback_used |-> FALSE]

\* RAGPipeline._error_response
_error_response(error, user_message) ==
    [error |-> error, sql_query |-> None, query_results |-> None,
     response |-> Text(<<user_message>>), success |-> FALSE, fallback_used |-> FALSE]

\* the dict of the except branch of process_query
UnexpectedError(detail) == _error_response(<<detail>>, UnexpectedMessage)

\* a success envelope that always reports the primary SQL
SuccessEnvelopePrimarySql(sql, rows, response, fallback) ==
    [error |-> NoError, sql_query |-> sql_query, query_results |-> rows,
     response |-> response, success |-> TRUE, fallback_used |-> fallback]

\* the success dicts; a missing "fallback_used" key reads as FALSE
SuccessEnvelope(sql, rows, response, fallback) ==
    [error |-> NoError, sql_query |-> sql, query_results |-> rows,
     response |-> response, success |-> TRUE, fallback_used |-> fallback]

\* the "no results" dict of process_query
NoDataEnvelope(sql) ==
    [error |-> NoError, sql_query |-> sql, query_results |-> <<>>,
     response |-> Text(<<NoDataMessage>>), success |-> FALSE, fallback_used |-> FALSE]

(***************************************************************************)
(* Collaborators                                                           *)
(***************************************************************************)
\* sqlite3's Cursor.execute runs one statement and raises on a second one
MultiStatement(q) ==
    \E i \in 1..Len(q) :
        q[i] = ";" /\ \E j \in (i + 1)..Len(q) : q[j] \notin Ws \cup {"/**/", "--"}

\* DatabaseConnector.connect: the connection it leaves in self.conn
ConnectOutcomes(c) == IF c = "none" THEN {"open", "none"} ELSE {c}

\* DatabaseConnector.execute_query(query, return_error=True): every
\* (results, error) it can return with connection c, and whether the
\* query reached cursor.execute.  kind "garbage" is a value that is no
\* pair, which only a connector that breaks the interface returns.
ExecuteQuery(q, c, e) ==
    (IF _is_dangerous_query(q)
     THEN {[kind |-> "error", rows |-> None, cursor |-> FALSE,
            error |-> "Query contains potentially dangerous SQL patterns"]}
     ELSE IF c = "none"
     THEN {[kind |-> "error", rows |-> None, cursor |-> FALSE, error |-> "Unexpected error"]}
     ELSE {[kind |-> "error", rows |-> None, cursor |-> TRUE, error |-> "SQLite error"]}
          \cup (IF MultiStatement(q) THEN {}
                ELSE {[kind |-> "rows", rows |-> Rows(n), cursor |-> TRUE, error |-> "None"] :
                        n \in RowCounts}))
    \cup (IF e = "any"
          THEN {[kind |-> "garbage", rows |-> None, cursor |-> FALSE, error |-> "None"]}
          ELSE {})

\* llm.generate_text in _generate_response: a text, an exception, or (only
\* from a generator that breaks the interface) a value that is no text
NarrationOutcomes(e) == {"text", "raise"} \cup (IF e = "any" THEN {"nontext"} ELSE {})

\* "if not query_results" in _generate_response: the LLM is not called
NothingToNarrate(query_results) == Falsy(query_results)

\* _generate_response without its except branch: a raising LLM call gives no text
GenerateResponseUncaught(query_results, outcome) ==
    CASE NothingToNarrate(query_results) ->
            Text(<<"I couldn't find any data matching your request.">>)
      [] outcome = "text" -> Text(<<"<llm narrative>">>)
      [] OTHER -> NonText

\* RAGPipeline._generate_response
_generate_response(query_results, outcome) ==
    CASE NothingToNarrate(query_results) ->
            Text(<<"I couldn't find any data matching your request.">>)
      [] outcome = "text" -> Text(<<"<llm narrative>">>)
      [] outcome = "nontext" -> NonText
      [] outcome = "raise" ->
            IF Len(query_results) = 1 THEN Text(<<"I found one result: ">>)
            ELSE Text(<<"I found n results. Here are the first few: ">>)

\* str + str; adding a non-text value raises TypeError
Concat(a, b) == Text(a.parts \o b.parts)


(***************************************************************************)
(* process_query                                                           *)
(***************************************************************************)
Init ==
    /\ env = "contract"
    /\ user_query \in Questions
    /\ conn = "none"
    /\ pc = "extract"
    /\ entities = NoneEntities
    /\ retry_count = 0
    /\ sql_query = None
    /\ genCalls = 0
    /\ narrCalls = 0
    /\ accepted = {}
    /\ executed = <<>>
    /\ results = None
    /\ cursorLog = {}
    /\ fbIdx = 0
    /\ fbReason = NoError
    /\ returned = "nothing"
    /\ envelope = NoEnvelope
    /\ requests = <<>>
    /\ objects = <<>>
    /\ original = None
    /\ validation = NoVerdict

\* the same, with collaborators that may break their interface
InitAny ==
    /\ env \in {"contract", "any"}
    /\ user_query \in Questions
    /\ conn = "none"
    /\ pc = "extract"
    /\ entities = NoneEntities
    /\ retry_count = 0
    /\ sql_query = None
    /\ genCalls = 0
    /\ narrCalls = 0
    /\ accepted = {}
    /\ executed = <<>>
    /\ results = None
    /\ cursorLog = {}
    /\ fbIdx = 0
    /\ fbReason = NoError
    /\ returned = "nothing"
    /\ envelope = NoEnvelope
    /\ requests = <<>>
    /\ objects = <<>>
    /\ original = None
    /\ validation = NoVerdict

\* return <dict>
Return(e) ==
    /\ pc' = "done"
    /\ returned' = "envelope"
    /\ envelope' = e

\* One call of db.execute_query with outcome o: the log of calls, the
\* cursor log and the connection (execute_query connects when conn is None).
Execute(q, kind, o, c) ==
    /\ executed' = Append(executed, [sql |-> q, kind |-> kind, rows |-> o.rows,
                                     got_rows |-> o.kind = "rows" /\ o.rows # <<>>])
    /\ cursorLog' = IF o.cursor THEN cursorLog \cup {q} ELSE cursorLog
    /\ conn' = c

\* entities = self.entity_extractor.extract_entities(user_query)
\* EntityExtractor.extract_entities: the LLM answers with JSON, with text
\* that holds no JSON, or raises; only JSON can carry player_names
\* (_pattern_extract fills "player_name"), which _resolve_entities keeps
\* when the fuzzy match finds them.
ExtractEntities ==
    /\ pc = "extract"
    /\ \E llm \in {"json", "no_json", "raise"} \cup
                  (IF env = "any" THEN {"returns_none", "returns_other", "escapes"} ELSE {}) :
       \E names \in ResolvedNames :
         /\ llm # "json" => names = <<>>
         /\ IF llm = "escapes"
            THEN /\ Return(UnexpectedError("entity extraction failed"))
                 /\ UNCHANGED entities
            ELSE /\ entities' = CASE llm = "returns_none" -> NoneEntities
                                  [] llm = "returns_other" -> OtherEntities
                                  [] OTHER -> EntitiesOf(names)
                 /\ pc' = "generate"
                 /\ UNCHANGED <<returned, envelope>>
    /\ UNCHANGED <<requests, objects, original, validation, env, user_query, conn, retry_count, sql_query, genCalls, narrCalls,
                   accepted, executed, cursorLog, fbIdx, fbReason,
                   results>>


\* the special case tested only after text generation has been called
GenerateCloseGamesAfterLLM ==
    /\ pc = "generate"
    /\ _is_close_games_query(user_query)
    /\ genCalls' = genCalls + 1
    /\ sql_query' = _generate_close_games_query
    /\ pc' = "check"
    /\ UNCHANGED <<requests, objects, original, validation, env, user_query, conn, entities, retry_count, narrCalls,
                   accepted, executed, cursorLog, fbIdx, fbReason, results,
                   returned, envelope>>

\* generate_sql_query: the special-case branch
GenerateCloseGames ==
    /\ pc = "generate"
    /\ _is_close_games_query(user_query)
    /\ sql_query' = _generate_close_games_query
    /\ pc' = "check"
    /\ UNCHANGED <<requests, objects, original, validation, env, user_query, conn, entities, retry_count, genCalls, narrCalls,
                   accepted, executed, cursorLog, fbIdx, fbReason, returned, envelope,
                   results>>

\* One activation of generate_sql_query past the special case: one call of
\* llm.generate_text, extraction, repair, validation, and either the
\* recursive call (the candidate stays in sql_query) or the return.
\* reply "raise": generate_text raises; "bad_type": it returns an object
\* re.search cannot read, which raises out of generate_sql_query.
GenerateAttempt ==
    /\ pc = "generate"
    /\ ~_is_close_games_query(user_query)
    /\ genCalls' = genCalls + 1
    /\ \E reply \in LLMReplies \cup {<<"raise">>} \cup
                    (IF env = "any" THEN {<<"bad_type">>} ELSE {}) :
         IF reply = <<"raise">>
         THEN /\ sql_query' = None
              /\ pc' = "check"
              /\ UNCHANGED <<retry_count, accepted, returned, envelope>>
         ELSE IF reply = <<"bad_type">>
         THEN /\ Return(UnexpectedError("expected string or bytes-like object"))
              /\ UNCHANGED <<retry_count, accepted, sql_query>>
         ELSE \E extracted \in {_extract_sql(reply)} :
              \E candidate \in {_fix_sqlite_compatibility(extracted)} :
              \E verdict \in {validate_sql(candidate)} :
                  /\ sql_query' = candidate
                  /\ accepted' = IF verdict.ok THEN accepted \cup {candidate} ELSE accepted
                  /\ IF ~verdict.ok /\ retry_count < MaxRetries
                     THEN retry_count' = retry_count + 1 /\ pc' = "generate"
                     ELSE retry_count' = retry_count /\ pc' = "check"
                  /\ UNCHANGED <<returned, envelope>>
    /\ UNCHANGED <<requests, objects, original, validation, env, user_query, conn, entities, narrCalls, executed, cursorLog,
                   fbIdx, fbReason,
                   results>>

\* process_query without its "Validate SQL" step: any non-empty candidate is executed
CheckSqlUnvalidated ==
    /\ pc = "check"
    /\ IF Falsy(sql_query)
       THEN /\ Return(_error_response(<<"Failed to generate SQL query">>, DefaultErrorMessage))
            /\ UNCHANGED <<accepted, fbIdx, fbReason>>
       ELSE /\ pc' = "execute"
            /\ UNCHANGED <<accepted, fbIdx, fbReason, returned, envelope>>
    /\ UNCHANGED <<requests, objects, original, validation, env, user_query, conn, entities, retry_count, sql_query,
                   genCalls, narrCalls, executed, cursorLog, results>>

\* process_query, "if not sql_query" and "Validate SQL"
CheckSql ==
    /\ pc = "check"
    /\ IF Falsy(sql_query)
       THEN /\ Return(_error_response(<<"Failed to generate SQL query">>, DefaultErrorMessage))
            /\ UNCHANGED <<accepted, fbIdx, fbReason>>
       ELSE \E verdict \in {validate_sql(sql_query)} :
                IF verdict.ok
                THEN /\ accepted' = accepted \cup {sql_query}
                     /\ pc' = "execute"
                     /\ UNCHANGED <<fbIdx, fbReason, returned, envelope>>
                ELSE /\ pc' = "fallback"
                     /\ fbIdx' = 1
                     /\ fbReason' = ErrorText("SQL validation failed", verdict.error)
                     /\ UNCHANGED <<accepted, returned, envelope>>
    /\ UNCHANGED <<requests, objects, original, validation, env, user_query, conn, entities, retry_count, sql_query, genCalls,
                   narrCalls, executed, cursorLog,
                   results>>


\* zero rows routed to the fallback ladder like an execution error
RouteLadderOnEmpty(o) ==
    CASE o.kind = "error" -> "fallback"
      [] o.kind = "rows" /\ o.rows = <<>> -> "fallback"
      [] OTHER -> "narrate"

\* process_query: where (results, sql_error) of the primary execution leads,
\* "if sql_error", "if not results or len(results) == 0", else narration
RouteAfterPrimary(o) ==
    CASE o.kind = "error" -> "fallback"
      [] o.kind = "rows" /\ o.rows = <<>> -> "handle_empty"
      [] OTHER -> "narrate"

\* process_query, "Execute query" up to the branch on its result
ExecutePrimary ==
    /\ pc = "execute"
    /\ \E c \in ConnectOutcomes(conn) :
       \E o \in ExecuteQuery(sql_query, c, env) :
         /\ Execute(sql_query, "primary", o, c)
         /\ results' = o.rows
         /\ IF o.kind = "garbage"
            THEN /\ Return(UnexpectedError("cannot unpack"))
                 /\ UNCHANGED <<fbIdx, fbReason>>
            ELSE \E next \in {RouteAfterPrimary(o)} :
                 /\ pc' = next
                 /\ fbIdx' = IF next = "fallback" THEN 1 ELSE fbIdx
                 /\ fbReason' = IF next = "fallback"
                                THEN ErrorText("SQL execution failed", o.error)
                                ELSE fbReason
                 /\ UNCHANGED <<returned, envelope>>
    /\ UNCHANGED <<requests, objects, original, validation, env, user_query, entities, retry_count, sql_query, genCalls, narrCalls,
                   accepted>>

\* process_query, "Generate natural language response" and the success dict
NarratePrimary ==
    /\ pc = "narrate"
    /\ narrCalls' = IF NothingToNarrate(results) THEN narrCalls ELSE narrCalls + 1
    /\ \E n \in NarrationOutcomes(env) :
         Return(SuccessEnvelope(sql_query, results, _generate_response(results, n), FALSE))
    /\ UNCHANGED <<requests, objects, original, validation, env, user_query, conn, entities, retry_count, sql_query, genCalls,
                   accepted, executed, cursorLog, fbIdx, fbReason, results>>

\* a ladder that stays at the fallback it has just tried
FallbackAgain ==
    /\ fbIdx' = fbIdx
    /\ UNCHANGED <<pc, returned, envelope>>

\* One iteration of the loop of _try_fallback, and after the last one the
\* return of None and the error dict of process_query.
FallbackNext ==
    IF fbIdx < NumFallbacks
    THEN /\ fbIdx' = fbIdx + 1
         /\ UNCHANGED <<pc, returned, envelope>>
    ELSE /\ fbIdx' = fbIdx
         /\ Return(_error_response(fbReason, DefaultErrorMessage))

FallbackStep ==
    /\ pc = "fallback"
    /\ \E fallback_sql \in {FallbackSql(fbIdx, user_query, entities)} :
           IF (FallbackReadsEntities(fbIdx) /\ GetRaises(entities)) \/ Falsy(fallback_sql)
              \/ ~validate_sql(fallback_sql).ok
           THEN /\ FallbackNext
                /\ UNCHANGED <<conn, accepted, executed, cursorLog, narrCalls>>
           ELSE /\ accepted' = accepted \cup {fallback_sql}
                /\ \E c \in ConnectOutcomes(conn) :
                   \E o \in ExecuteQuery(fallback_sql, c, env) :
                     /\ Execute(fallback_sql, "fallback", o, c)
                     /\ IF o.kind # "rows" \/ o.rows = <<>>
                        THEN FallbackNext /\ UNCHANGED narrCalls
                        ELSE /\ narrCalls' = narrCalls + 1
                             /\ \E n \in NarrationOutcomes(env) :
                                \E response \in {_generate_response(o.rows, n)} :
                                      IF ~response.text
                                      THEN FallbackNext
                                      ELSE /\ fbIdx' = fbIdx
                                           /\ Return(SuccessEnvelope(fallback_sql, o.rows,
                                                  Concat(response, Text(<<FallbackNote>>)),
                                                  TRUE))
    /\ UNCHANGED <<requests, objects, original, validation, env, user_query, entities, retry_count, sql_query, genCalls, fbReason,
                   results>>


\* the recovery result returned without truncation
AllRows(rows) == rows

\* results[:5]
FirstRows(rows) ==
    SubSeq(rows, 1, IF Len(rows) < RecoveryRowLimit THEN Len(rows) ELSE RecoveryRowLimit)

\* _handle_empty and the rest of the "Handle empty results" branch
HandleEmpty ==
    /\ pc = "handle_empty"
    /\ IF GetRaises(entities)
       THEN /\ Return(UnexpectedError("object has no attribute 'get'"))
            /\ UNCHANGED <<conn, executed, cursorLog, narrCalls>>
       ELSE \E modified \in {RelaxPlayerFilter(sql_query)} :
                IF HasPlayerNames(entities) /\ modified # sql_query
                THEN \E c \in ConnectOutcomes(conn) :
                     \E o \in ExecuteQuery(modified, c, env) :
                       /\ Execute(modified, "relaxed", o, c)
                       /\ CASE o.kind = "garbage" ->
                                  /\ Return(UnexpectedError("cannot unpack"))
                                  /\ UNCHANGED narrCalls
                            [] o.kind = "error" \/ (o.kind = "rows" /\ o.rows = <<>>) ->
                                  /\ Return(NoDataEnvelope(sql_query))
                                  /\ UNCHANGED narrCalls
                            [] OTHER ->
                                  /\ narrCalls' = narrCalls + 1
                                  /\ \E n \in NarrationOutcomes(env) :
                                     \E response \in {_generate_response(FirstRows(o.rows), n)} :
                                           IF ~response.text
                                           THEN Return(UnexpectedError("can only concatenate str"))
                                           ELSE Return(SuccessEnvelope(modified,
                                                    FirstRows(o.rows),
                                                    Concat(Text(<<RecoveryPrefix>>), response),
                                                    TRUE))
                ELSE /\ Return(NoDataEnvelope(sql_query))
                     /\ UNCHANGED <<conn, executed, cursorLog, narrCalls>>
    /\ UNCHANGED <<requests, objects, original, validation, env, user_query, entities, retry_count, sql_query, genCalls, accepted,
                   fbIdx, fbReason,
                   results>>

Next ==
    \/ ExtractEntities
    \/ GenerateCloseGames
    \/ GenerateAttempt
    \/ CheckSql
    \/ ExecutePrimary
    \/ NarratePrimary
    \/ FallbackStep
    \/ HandleEmpty

Spec == Init /\ [][Next]_vars

\* the same program with collaborators free to break their interface
SpecAny == InitAny /\ [][Next]_vars

(***************************************************************************)
(* One call of generate_sql_query(user_query, entities), retry_count 0      *)
(***************************************************************************)
GenInit ==
    /\ env = "contract"
    /\ user_query \in Questions
    /\ conn = "none"
    /\ pc = "generate"
    /\ entities \in {EntitiesOf(names) : names \in ResolvedNames}
    /\ retry_count = 0
    /\ sql_query = None
    /\ genCalls = 0
    /\ narrCalls = 0
    /\ accepted = {}
    /\ executed = <<>>
    /\ results = None
    /\ cursorLog = {}
    /\ fbIdx = 0
    /\ fbReason = NoError
    /\ returned = "nothing"
    /\ envelope = NoEnvelope
    /\ requests = <<>>
    /\ objects = <<>>
    /\ original = None
    /\ validation = NoVerdict

GenNext ==
    \/ GenerateCloseGames
    \/ GenerateAttempt

\* the call is sequential code: a step it can take, it takes
GenSpec == GenInit /\ [][GenNext]_vars /\ WF_vars(GenNext)


(***************************************************************************)
(* Direct calls of the pure methods on one SQL string: validate_sql,        *)
(* _fix_sqlite_compatibility (once, then again on its own output) and the    *)
(* substitution of _handle_empty.                                           *)
(***************************************************************************)
\* most fragments joined into one input
MaxFragments == 3

\* most unmatched parentheses of one kind in one input
MaxParens == 3

\* pieces of SQL an input is joined from, in this order
Fragments ==
    << <<"SELECT">>,
       <<"EXTRACT", "(", "YEAR", "FROM", "game_date", ")">>,
       <<"Pts", "+", "INTERVAL", "'7'", "DAY">>,
       <<"STDDEV", "(", "Pts", ")">>,
       <<"VARIANCE", "(", "Pts", ")">>,
       <<"Name", "ILIKE", "'UCLA'">>,
       <<"Pts", "::", "text">>,
       <<"Name", "SIMILAR", "TO", "'UCLA'">>,
       <<"SPLIT_PART", "(", "Name", ")">>,
       <<"FROM", T>>,
       <<"WHERE", "WITH", "a", "AS", "(", "SELECT", "1", ")">>,
       <<"GROUP", "BY", "AVG", "(", "Pts", ")">> >>

RECURSIVE Join(_, _)
Join(chosen, i) ==
    IF i > Len(Fragments) THEN <<>>
    ELSE (IF i \in chosen THEN Fragments[i] ELSE <<>>) \o Join(chosen, i + 1)

FragmentQueries ==
    {Join(c, 1) : c \in {d \in SUBSET (1..Len(Fragments)) : Cardinality(d) <= MaxFragments}}

RECURSIVE Opens(_)
Opens(n) == IF n <= 0 THEN <<>> ELSE <<"(">> \o Opens(n - 1)

\* a query with n opening and k closing parentheses
ParenQuery(n, k) == <<"SELECT">> \o Opens(n) \o <<"Pts", "FROM", T>> \o Closes(k)

ParenQueries == {ParenQuery(n, k) : n, k \in 0..MaxParens}

SampleQueries ==
    { <<"SELECT", "*", "FROM", T, "WHERE", "AND", "AND", "Pts", ">", "10">>,
      <<"SELECT", "Pts", ",", "TO", ",", "3PTM", "FROM", T, "WHERE", "No", "=", "3">>,
      <<"SELECT", "TO", "AS", "x", "FROM", T>>,
      <<"SELECT", "EXTRACT", "(", "MONTH", "FROM", "game_date", ")", "FROM", T>>,
      <<" ", NL>>,
      <<"SELECT", "Name", ",", "AVG", "(", "Pts", ")", "FROM", T, "GROUP", "BY", "Name",
        "ORDER", "BY", "AVG", "(", "Pts", ")">>,
      <<"SELECT", "Name", ",", "AVG", "(", "Pts", ")", "FROM", T, "GROUP", "BY", "Name",
        "HAVING", "AVG", "(", "Pts", ")", ">", "10">>,
      <<"SELECT", "Name", "FROM", T, "GROUP", "BY", NL, "AVG", "(", "Pts", ")">>,
      <<"SELECT", "Name", "FROM", T, "GROUP", "BY", "SUM", "(", "Pts", ")">>,
      <<"SELECT", "Name", "FROM", T, "GROUP", "BY", "Name", NL,
        "ORDER", "BY", "AVG", "(", "Pts", ")">>,
      <<"SELECT", "opponent_strength", ",", "AVG", "(", "Pts", ")", "FROM", T,
        "GROUP", "BY", "opponent_strength", "ORDER", "BY", "AVG", "(", "Pts", ")">>,
      <<"SELECT", "opponent_strength", "FROM", T, "GROUP", "BY", "AVG", "(", "Pts", ")">>,
      <<"SELECT", "Opponent", "FROM", T, "GROUP", "BY", "AVG", "(", "Pts", ")">>,
      <<"SELECT", "*", "FROM", T, "WHERE", "Opponent", "=", "'UCLA'", "AND",
        "Name", "=", "'Betts, Lauren'", "AND", "Pts", ">", "10">>,
      <<"SELECT", "*", "FROM", T, "WHERE", "Name", "=", "'Betts, Lauren'", "AND",
        "Pts", ">", "10">>,
      <<"SELECT", "*", "FROM", T, "WHERE", "Pts", ">", "10", "AND",
        "Name", "=", "'Betts, Lauren'", "AND", "Reb", ">", "5">>,
      <<"SELECT", "*", "FROM", T, "WHERE", "Name", "=", "'Betts, Lauren'">> }

\* the SQL strings the methods are called with
SqlInputs == FragmentQueries \cup ParenQueries \cup SampleQueries

UnitInit ==
    /\ env = "contract"
    /\ user_query = {}
    /\ conn = "none"
    /\ pc = "input"
    /\ entities = NoneEntities
    /\ retry_count = 0
    /\ original \in SqlInputs
    /\ sql_query = original
    /\ validation = NoVerdict
    /\ genCalls = 0
    /\ narrCalls = 0
    /\ accepted = {}
    /\ executed = <<>>
    /\ results = None
    /\ cursorLog = {}
    /\ fbIdx = 0
    /\ fbReason = NoError
    /\ returned = "nothing"
    /\ envelope = NoEnvelope
    /\ requests = <<>>
    /\ objects = <<>>

\* sql_query = self._fix_sqlite_compatibility(sql_query), on the input and
\* then on the string the first call returned
CallRepair ==
    /\ pc \in {"input", "repaired"}
    /\ \E fixed \in {_fix_sqlite_compatibility(sql_query)} : sql_query' = fixed
    /\ pc' = IF pc = "input" THEN "repaired" ELSE "repaired_twice"
    /\ UNCHANGED <<requests, objects, original, validation, env, user_query, conn, entities, retry_count,
                   genCalls, narrCalls, accepted, executed, cursorLog, fbIdx, fbReason,
                   results, returned, envelope>>

\* is_valid, error = self.validate_sql(sql_query), on the input or on the
\* repaired string
CallValidate ==
    /\ pc \in {"input", "repaired"}
    /\ \E v \in {validate_sql(sql_query)} : validation' = v
    /\ pc' = IF pc = "input" THEN "validated" ELSE "repaired_validated"
    /\ UNCHANGED <<requests, objects, original, sql_query, env, user_query, conn, entities, retry_count,
                   genCalls, narrCalls, accepted, executed, cursorLog, fbIdx, fbReason,
                   results, returned, envelope>>

\* modified = re.sub(r"WHERE.*?Name.*?=.*?'[^']*'.*?AND", "WHERE", sql_query, ...)
CallRelax ==
    /\ pc = "input"
    /\ \E modified \in {RelaxPlayerFilter(sql_query)} : sql_query' = modified
    /\ pc' = "relaxed"
    /\ UNCHANGED <<requests, objects, original, validation, env, user_query, conn, entities, retry_count,
                   genCalls, narrCalls, accepted, executed, cursorLog, fbIdx, fbReason,
                   results, returned, envelope>>

UnitNext ==
    \/ CallRepair
    \/ CallValidate
    \/ CallRelax

UnitSpec == UnitInit /\ [][UnitNext]_vars


(***************************************************************************)
(* app.py: process_with_rag_pipeline, called by concurrent requests.        *)
(* Objects live in a heap; a reference is an index of the heap, 0 is None.  *)
(***************************************************************************)
\* the requests in flight
Requests == {1, 2}

\* candidates generate_sql_query may return to a request
AppCandidates == {<<"SELECT", "*", "FROM", T>>, <<"SELECT", "Pts", "FROM", T>>}

\* the locals of a request that has not started
NoLocals ==
    [pc |-> "db", db_connector |-> 0, llm_manager |-> 0, rag_pipeline |-> 0,
     sql_query |-> None, returned |-> "nothing"]

\* x = Class(...): the reference of a newly built object
NewRef(h) == Len(h) + 1

\* the heap with object o stored at reference ref
Store(h, ref, o) ==
    [i \in 1..(IF ref > Len(h) THEN ref ELSE Len(h)) |-> IF i = ref THEN o ELSE h[i]]

\* a connect that hands out one process-wide connection instead of a new one
ConnectPooled(h, d, outcome) ==
    IF outcome = "none" THEN h
    ELSE IF \E i \in 1..Len(h) : h[i].kind = "Connection" /\ h[i].open
         THEN LET c == CHOOSE i \in 1..Len(h) : h[i].kind = "Connection" /\ h[i].open
              IN  Store(h, d, [h[d] EXCEPT !.conn = c, !.cursor = c + 1])
         ELSE LET c == NewRef(h)
                  h1 == Store(h, c, [kind |-> "Connection", open |-> TRUE])
                  h2 == Store(h1, c + 1, [kind |-> "Cursor", connection |-> c, last |-> None])
              IN  Store(h2, d, [h[d] EXCEPT !.conn = c, !.cursor = c + 1])

\* DatabaseConnector.connect on connector d: sqlite3.connect gives a new
\* connection and cursor, or it raises and connect returns False
ConnectHeap(h, d, outcome) ==
    IF outcome = "none" THEN h
    ELSE LET c == NewRef(h)
             h1 == Store(h, c, [kind |-> "Connection", open |-> TRUE])
             h2 == Store(h1, c + 1, [kind |-> "Cursor", connection |-> c, last |-> None])
         IN  Store(h2, d, [h[d] EXCEPT !.conn = c, !.cursor = c + 1])

\* "if not self.conn: self.connect()"
EnsureConnected(h, d, outcome) == IF h[d].conn = 0 THEN ConnectHeap(h, d, outcome) ELSE h

\* the objects a request can reach from its locals
Owned(r) ==
    LET l == requests[r]
        direct == {l.db_connector, l.llm_manager, l.rag_pipeline} \ {0}
        parts == UNION {IF objects[i].kind = "RAGPipeline"
                        THEN {objects[i].entity_extractor, objects[i].query_generator,
                              objects[i].db, objects[i].llm}
                        ELSE {} : i \in direct}
        handles == UNION {IF objects[i].kind = "DatabaseConnector"
                          THEN {objects[i].conn, objects[i].cursor} \ {0}
                          ELSE {} : i \in direct \cup parts}
    IN  direct \cup parts \cup handles

AppInit ==
    /\ requests = [r \in Requests |-> NoLocals]
    /\ objects = <<>>
    /\ env = "contract"
    /\ user_query = {}
    /\ conn = "none"
    /\ pc = "app"
    /\ entities = NoneEntities
    /\ retry_count = 0
    /\ original = None
    /\ sql_query = None
    /\ validation = NoVerdict
    /\ genCalls = 0
    /\ narrCalls = 0
    /\ accepted = {}
    /\ executed = <<>>
    /\ results = None
    /\ cursorLog = {}
    /\ fbIdx = 0
    /\ fbReason = NoError
    /\ returned = "nothing"
    /\ envelope = NoEnvelope

\* what no step of a request touches
AppFrame ==
    UNCHANGED <<original, validation, env, user_query, conn, pc, entities, retry_count,
                sql_query, genCalls, narrCalls, accepted, executed, cursorLog, fbIdx,
                fbReason, results, returned, envelope>>

\* db_connector = DatabaseConnector(db_path='data/ucla_wbb.db')
NewConnector(r) ==
    /\ requests[r].pc = "db"
    /\ \E ref \in {NewRef(objects)} :
         /\ objects' = Store(objects, ref,
                             [kind |-> "DatabaseConnector", conn |-> 0, cursor |-> 0])
         /\ requests' = [requests EXCEPT ![r].db_connector = ref, ![r].pc = "connect"]
    /\ AppFrame

\* db_connector.connect()
Connect(r) ==
    /\ requests[r].pc = "connect"
    /\ \E outcome \in {"open", "none"} :
         objects' = ConnectHeap(objects, requests[r].db_connector, outcome)
    /\ requests' = [requests EXCEPT ![r].pc = "llm"]
    /\ AppFrame

\* llm_manager = LLMManager(): _initialize_llm raises without an API key
NewLLMManager(r) ==
    /\ requests[r].pc = "llm"
    /\ \/ /\ objects' = Store(objects, NewRef(objects), [kind |-> "LLMManager"])
          /\ requests' = [requests EXCEPT ![r].llm_manager = NewRef(objects),
                                          ![r].pc = "pipeline"]
       \/ /\ objects' = objects
          /\ requests' = [requests EXCEPT ![r].pc = "except"]
    /\ AppFrame

\* rag_pipeline = RAGPipeline(llm_manager, db_connector, ...): a new
\* EntityExtractor (own entity_cache; _load_entities connects when the
\* connector has no connection) and a new SQLQueryGenerator; the imports
\* inside __init__ may raise
NewPipeline(r) ==
    /\ requests[r].pc = "pipeline"
    /\ \/ \E outcome \in {"open", "none"} :
          \E h \in {EnsureConnected(objects, requests[r].db_connector, outcome)} :
          \E e \in {NewRef(h)} :
            /\ objects' =
                 Store(Store(Store(h,
                    e, [kind |-> "EntityExtractor", db |-> requests[r].db_connector,
                        llm |-> requests[r].llm_manager, entity_cache |-> {}]),
                    e + 1, [kind |-> "SQLQueryGenerator", db |-> requests[r].db_connector,
                            llm |-> requests[r].llm_manager]),
                    e + 2, [kind |-> "RAGPipeline", db |-> requests[r].db_connector,
                            llm |-> requests[r].llm_manager, entity_extractor |-> e,
                            query_generator |-> e + 1])
            /\ requests' = [requests EXCEPT ![r].rag_pipeline = e + 2, ![r].pc = "extract"]
       \/ /\ objects' = objects
          /\ requests' = [requests EXCEPT ![r].pc = "except"]
    /\ AppFrame

\* process_query, entity extraction: _fuzzy_match reads and fills the
\* entity_cache of the pipeline's own extractor
AppExtractEntities(r) ==
    /\ requests[r].pc = "extract"
    /\ \E e \in {objects[requests[r].rag_pipeline].entity_extractor} :
       \E hits \in {{}, {"Betts, Lauren"}} :
         objects' = Store(objects, e,
                          [objects[e] EXCEPT !.entity_cache = objects[e].entity_cache \cup hits])
    /\ requests' = [requests EXCEPT ![r].pc = "generate"]
    /\ AppFrame

\* process_query, sql_query = self.query_generator.generate_sql_query(...)
AppGenerate(r) ==
    /\ requests[r].pc = "generate"
    /\ \E candidate \in AppCandidates :
         requests' = [requests EXCEPT ![r].sql_query = candidate, ![r].pc = "execute"]
    /\ objects' = objects
    /\ AppFrame

\* process_query, self.db.execute_query(sql_query, ...): connects when the
\* connector has no connection, then uses the connector's cursor
AppExecute(r) ==
    /\ requests[r].pc = "execute"
    /\ \E d \in {objects[requests[r].rag_pipeline].db} :
       \E outcome \in {"open", "none"} :
       \E h \in {EnsureConnected(objects, d, outcome)} :
         objects' = IF h[d].cursor = 0 THEN h
                    ELSE Store(h, h[d].cursor,
                               [h[h[d].cursor] EXCEPT !.last = requests[r].sql_query])
    /\ requests' = [requests EXCEPT ![r].pc = "close"]
    /\ AppFrame

\* db_connector.close()
Close(r) ==
    /\ requests[r].pc = "close"
    /\ \E d \in {requests[r].db_connector} :
         objects' = IF objects[d].conn = 0 THEN objects
                    ELSE Store(Store(objects, objects[d].conn,
                                     [objects[objects[d].conn] EXCEPT !.open = FALSE]),
                               d, [objects[d] EXCEPT !.conn = 0, !.cursor = 0])
    /\ requests' = [requests EXCEPT ![r].pc = "return"]
    /\ AppFrame

\* return {'response': ..., 'success': ...}
ReturnResult(r) ==
    /\ requests[r].pc = "return"
    /\ requests' = [requests EXCEPT ![r].pc = "done", ![r].returned = "result"]
    /\ objects' = objects
    /\ AppFrame

\* except Exception as e: ... return {'response': 'I encountered an error: ...'}
ReturnError(r) ==
    /\ requests[r].pc = "except"
    /\ requests' = [requests EXCEPT ![r].pc = "done", ![r].returned = "error"]
    /\ objects' = objects
    /\ AppFrame

AppNext ==
    \E r \in Requests :
        \/ NewConnector(r)
        \/ Connect(r)
        \/ NewLLMManager(r)
        \/ NewPipeline(r)
        \/ AppExtractEntities(r)
        \/ AppGenerate(r)
        \/ AppExecute(r)
        \/ Close(r)
        \/ ReturnResult(r)
        \/ ReturnError(r)

AppSpec == AppInit /\ [][AppNext]_vars


(***************************************************************************)
(* Properties                                                              *)
(***************************************************************************)
\* a statement separator followed, after optional whitespace, by a mutating keyword
SeparatorThenMutating(q) ==
    \E i \in 1..Len(q) :
        /\ q[i] = ";"
        /\ SkipWs(q, i + 1) <= Len(q)
        /\ Upper(q[SkipWs(q, i + 1)]) \in MutatingKeywords

\* the calls of execute_query made by _try_fallback, in order
FallbackEntries == SelectSeq(executed, LAMBDA e : e.kind = "fallback")

\* the last call of execute_query
LastExecuted == executed[Len(executed)]

\* the order the ladder is said to follow
ClaimedFallback(r) ==
    CASE r = 1 -> _simple_aggregation_query(user_query, entities)
      [] r = 2 -> _basic_player_query(user_query, entities)
      [] r = 3 -> _top_performers_query(user_query, entities)

\* place of a SQL string in that order, 0 when it is none of the templates
TemplateRank(q) ==
    IF \E r \in 1..3 : ClaimedFallback(r) = q
    THEN CHOOSE r \in 1..3 : ClaimedFallback(r) = q
    ELSE 0

\* the SQL holds a predicate Name = '<a resolved player>'
HasPlayerPredicate(q) ==
    \E i \in 1..(Len(q) - 2) :
        /\ q[i] = "Name"
        /\ q[i + 1] = "="
        /\ \E k \in 1..Len(entities.player_names) : q[i + 2] = Lit(entities.player_names[k])

\* C1: whatever the collaborators return or raise, process_query returns an
\* envelope (it never raises), and the envelope carries a boolean success and
\* a response that is text.
C1_AlwaysEnvelopeWithTextResponse ==
    pc = "done" =>
        /\ returned = "envelope"
        /\ envelope.success \in BOOLEAN
        /\ envelope.response.text

\* C2: no SQL string holding a statement separator followed by a mutating
\* keyword is ever handed to the database cursor.
C2_NoSeparatorMutatingAtCursor ==
    \A q \in cursorLog : ~SeparatorThenMutating(q)

\* C3: every SQL string sent to execute_query (primary, fallback template or
\* relaxed query) was accepted by validate_sql earlier in the same invocation.
C3_ExecutedWasAccepted ==
    \A i \in 1..Len(executed) : executed[i].sql \in accepted

\* C4: validate_sql accepts no string that holds a statement separator
\* followed by DROP, DELETE, UPDATE, INSERT, CREATE or ALTER.
C4_ValidatorRejectsSeparatorMutating ==
    \A q \in accepted : ~SeparatorThenMutating(q)

\* C5: when text generation fails on every attempt (it raises, or no SQL can
\* be extracted from what it returns), process_query still runs the fallback
\* ladder: it ends with a fallback's success or with the ladder exhausted.
C5_GenerationFailureRunsLadder ==
    (pc = "done" /\ genCalls > 0 /\ Falsy(sql_query)) =>
        \/ envelope.success /\ envelope.fallback_used
        \/ fbIdx = NumFallbacks

\* C6: one call of generate_sql_query calls text generation at most 3 times;
\* it calls again only after a rejected candidate and with fewer than 2
\* retries used, stops at the first accepted candidate, returns the third
\* rejected candidate as it is, and always terminates.
C6_BoundedRegeneration ==
    /\ [](genCalls <= 3 /\ retry_count <= 2)
    /\ [][(pc = "generate" /\ genCalls' = genCalls + 1) =>
             /\ pc' = "generate" =>
                    /\ ~validate_sql(sql_query').ok
                    /\ retry_count < 2
                    /\ retry_count' = retry_count + 1
             /\ (sql_query' # None /\ validate_sql(sql_query').ok) => pc' = "check"
             /\ (sql_query' # None /\ genCalls' = 3) => pc' = "check"]_vars
    /\ (pc = "generate") ~> (pc = "check")

\* C6 happens: the third candidate was rejected too and is returned as it is
C6_ThirdRejectedReturned ==
    /\ pc = "check"
    /\ genCalls = 3
    /\ sql_query # None
    /\ ~validate_sql(sql_query).ok

\* C7: for a question matching the close-games pattern, generate_sql_query
\* returns the canonical two-player template verbatim and makes no call to
\* text generation.
C7_CloseGamesBypass ==
    (_is_close_games_query(user_query) /\ pc \notin {"extract", "generate"}) =>
        /\ sql_query = _generate_close_games_query
        /\ genCalls = 0

\* C7 happens: generate_sql_query has returned for a close-games question
C7_CloseGamesReturned ==
    /\ _is_close_games_query(user_query)
    /\ pc = "check"
    /\ sql_query = _generate_close_games_query

\* C8: the ladder executes its templates in the order simple aggregation,
\* basic player lookup, top performers; a template that returns a row ends
\* the ladder (nothing later is executed) and its SQL is in the envelope,
\* with fallback_used and the disclosure appended to the response; every
\* template before the winner was not produced, not valid, or ran without rows.
C8_FallbackOrderFirstWins ==
    LET F == FallbackEntries
    IN  /\ \A i \in 1..Len(F) : TemplateRank(F[i].sql) > 0
        /\ \A i, j \in 1..Len(F) : i < j => TemplateRank(F[i].sql) < TemplateRank(F[j].sql)
        /\ \A i \in 1..Len(F) : F[i].got_rows =>
              /\ i = Len(F)
              /\ LastExecuted = F[i]
              /\ pc = "done"
              /\ envelope.success /\ envelope.fallback_used
              /\ envelope.sql_query = F[i].sql
              /\ envelope.response.text
              /\ envelope.response.parts[Len(envelope.response.parts)] = FallbackNote
              /\ Len(envelope.response.parts) = 2
              /\ \A r \in 1..(TemplateRank(F[i].sql) - 1) :
                    \/ Falsy(ClaimedFallback(r))
                    \/ ~validate_sql(ClaimedFallback(r)).ok
                    \/ \E j \in 1..(i - 1) : F[j].sql = ClaimedFallback(r)
        /\ (pc = "done" /\ fbIdx > 0 /\ envelope.success) =>
              F # <<>> /\ F[Len(F)].got_rows

\* C8 happens: a template won after an earlier one had been executed in vain
C8_SecondTemplateWon ==
    /\ pc = "done"
    /\ Len(FallbackEntries) >= 2
    /\ FallbackEntries[Len(FallbackEntries)].got_rows
    /\ envelope.fallback_used

\* C9 as stated: when the primary query returns zero rows the fallback ladder
\* runs first, and empty-result recovery is entered only after every
\* fallback has been exhausted.
C9_LadderBeforeRecovery ==
    (pc = "handle_empty" \/ \E i \in 1..Len(executed) : executed[i].kind = "relaxed") =>
        fbIdx = NumFallbacks

\* C9 amended: when the primary query executes without error and returns zero
\* rows, the fallback ladder is not run at all; process_query goes straight
\* to empty-result recovery and ends with the recovery's envelope or with
\* the "no data" failure envelope.
C9_RecoveryWithoutLadder ==
    results = <<>> =>
        /\ fbIdx = 0
        /\ FallbackEntries = <<>>
        /\ pc \in {"handle_empty", "done"}
        /\ pc = "done" =>
              \/ envelope = NoDataEnvelope(sql_query)
              \/ /\ envelope.success /\ envelope.fallback_used
                 /\ LastExecuted.kind = "relaxed" /\ LastExecuted.got_rows

\* C9 happens: zero rows, then the relaxed query ran and the call returned
C9_RecoveredAfterZeroRows ==
    /\ results = <<>>
    /\ pc = "done"
    /\ LastExecuted.kind = "relaxed"
    /\ LastExecuted.got_rows

ForbiddenTokens(s) ==
    {w \in {"EXTRACT", "INTERVAL", "STDDEV", "VARIANCE", "ILIKE", "SPLIT_PART"} : HasWord(s, w)}
    \cup (IF \E i \in 1..Len(s) : s[i] = "::" THEN {"::"} ELSE {})
    \cup (IF \E i \in 1..Len(s) :
                /\ Upper(s[i]) = "SIMILAR"
                /\ WsAfter(s, i)
                /\ SkipWs(s, i + 1) <= Len(s)
                /\ Upper(s[SkipWs(s, i + 1)]) = "TO"
          THEN {"SIMILAR TO"} ELSE {})

\* as many opening as closing parentheses
BalancedParens(s) == Count(s, "(") = Count(s, ")")

\* C11: for every input that holds no forbidden token and has balanced
\* parentheses, repairing the repaired string gives the repaired string:
\* the second call of _fix_sqlite_compatibility changes nothing.
C11_RepairIdempotent ==
    [][(/\ pc = "repaired"
        /\ pc' = "repaired_twice"
        /\ ForbiddenTokens(original) = {}
        /\ BalancedParens(original)) => sql_query' = sql_query]_vars

\* the input is a query whose parentheses are the only thing repair may touch
IsParenQuery(s) == \E n, k \in 0..MaxParens : s = ParenQuery(n, k)

\* closing parentheses at the end of a string
RECURSIVE TrailingCloses(_)
TrailingCloses(s) ==
    IF s # <<>> /\ s[Len(s)] = ")" THEN 1 + TrailingCloses(SubSeq(s, 1, Len(s) - 1)) ELSE 0

\* C12: with n more opening than closing parentheses the repaired string is
\* the input followed by exactly n closing parentheses; with k more closing
\* than opening ones it is the input with exactly k fewer trailing closing
\* parentheses.
C12_ParenthesesBalanced ==
    (pc = "repaired" /\ IsParenQuery(original)) =>
        LET open_parens == Count(original, "(")
            close_parens == Count(original, ")")
        IN  /\ open_parens > close_parens =>
                sql_query = original \o Closes(open_parens - close_parens)
            /\ close_parens > open_parens =>
                /\ sql_query = SubSeq(original, 1,
                                      Len(original) - (close_parens - open_parens))
                /\ TrailingCloses(sql_query) =
                       TrailingCloses(original) - (close_parens - open_parens)
            /\ close_parens = open_parens => sql_query = original

\* the reason a forbidden token is rejected with
ForbiddenReason(t) ==
    CASE t = "EXTRACT"    -> "EXTRACT not supported in SQLite"
      [] t = "INTERVAL"   -> "INTERVAL not supported in SQLite"
      [] t = "STDDEV"     -> "STDDEV not supported in SQLite"
      [] t = "VARIANCE"   -> "VARIANCE not supported in SQLite"
      [] t = "ILIKE"      -> "ILIKE not supported in SQLite"
      [] t = "::"         -> "PostgreSQL casting (::) not supported"
      [] t = "SIMILAR TO" -> "SIMILAR TO not supported in SQLite"
      [] t = "SPLIT_PART" -> "SPLIT_PART not supported in SQLite"

\* C14: validate_sql rejects every string that holds one of EXTRACT,
\* INTERVAL, STDDEV, VARIANCE, ILIKE, the :: cast, SIMILAR TO or SPLIT_PART,
\* with the reason of a forbidden token the string holds.
C14_ForbiddenTokensRejected ==
    (pc = "validated" /\ ~IsBlank(original) /\ ForbiddenTokens(original) # {}) =>
        /\ ~validation.ok
        /\ validation.error \in {ForbiddenReason(t) : t \in ForbiddenTokens(original)}

(***************************************************************************)
(* Properties of the envelope                                              *)
(***************************************************************************)
\* every text of an exception, of a validation reason or of an execution
\* error that a run can meet
ErrorDetails ==
    {"Empty SQL query", "EXTRACT not supported in SQLite", "INTERVAL not supported in SQLite",
     "STDDEV not supported in SQLite", "ILIKE not supported in SQLite",
     "PostgreSQL casting (::) not supported", "Aggregate functions not allowed in GROUP BY",
     "CTE cannot be used inside WHERE clause", "Query must contain SELECT",
     "Query must reference table",
     "Query contains potentially dangerous SQL patterns", "Unexpected error", "SQLite error",
     "entity extraction failed", "expected string or bytes-like object", "cannot unpack",
     "object has no attribute 'get'", "can only concatenate str",
     "Failed to generate SQL query"}

\* the message a failure is answered with, by the place the failure was
\* handled at: no rows, a failure process_query names itself, a caught exception
MessageOf(error) ==
    IF error = NoError THEN NoDataMessage
    ELSE IF Len(error) = 2 \/ error = <<"Failed to generate SQL query">>
         THEN DefaultErrorMessage
    ELSE UnexpectedMessage

\* C13: the response of a returned envelope does not depend on the text of a
\* caught exception or of a validation or execution error: a failure is
\* answered with the fixed message of the place it was handled at, no part of
\* any response is an error text, and the detail is in the error field.
C13_ResponseIndependentOfErrorDetail ==
    (pc = "done" /\ returned = "envelope") =>
        /\ envelope.response.text =>
              \A k \in 1..Len(envelope.response.parts) :
                  envelope.response.parts[k] \notin ErrorDetails
        /\ ~envelope.success =>
              /\ envelope.response = Text(<<MessageOf(envelope.error)>>)
              /\ envelope.error # NoError =>
                    envelope.error[Len(envelope.error)] \in ErrorDetails

\* an execution error ended a run with the default message
C13_ErrorDetailOnlyInErrorField ==
    /\ pc = "done"
    /\ envelope.error = ErrorText("SQL execution failed", "SQLite error")
    /\ envelope.response = Text(<<DefaultErrorMessage>>)

\* the reasons of validate_sql in the order its rules are said to be checked
RuleReasons ==
    <<"Empty SQL query",
      "EXTRACT not supported in SQLite",
      "INTERVAL not supported in SQLite",
      "STDDEV not supported in SQLite",
      "ILIKE not supported in SQLite",
      "PostgreSQL casting (::) not supported",
      "Aggregate functions not allowed in GROUP BY",
      "CTE cannot be used inside WHERE clause",
      "Query must contain SELECT",
      "Query must reference table">>

\* the string matches the r-th rule, taken by itself
RuleHolds(r, s) ==
    CASE r = 1  -> IsBlank(s)
      [] r = 2  -> HasWord(s, "EXTRACT")
      [] r = 3  -> HasWord(s, "INTERVAL")
      [] r = 4  -> HasWord(s, "STDDEV")
      [] r = 5  -> HasWord(s, "ILIKE")
      [] r = 6  -> \E i \in 1..Len(s) : s[i] = "::"
      [] r = 7  -> MatchesAggInGroupBy(s, FALSE)
      [] r = 8  -> MatchesCteInWhere(s, FALSE)
      [] r = 9  -> ~HasWord(s, "SELECT")
      [] r = 10 -> \A i \in 1..Len(s) : s[i] # table_name

MatchingRules(s) == {r \in 1..Len(RuleReasons) : RuleHolds(r, s)}

ExtractQuery(unit, x) == <<"SELECT", "EXTRACT", "(", unit, "FROM", x, ")", "FROM", T>>

\* SELECT strftime('<format>', x) FROM <table>
StrftimeQuery(format, x) == <<"SELECT", "strftime", "(", format, ",", x, ")", "FROM", T>>

DateColumns == {"game_date", "Date"}

\* what the repair and the validator that an attempt applies do with the two
\* date extractions
ExtractRepairedAndAccepted ==
    \A x \in DateColumns :
        /\ _fix_sqlite_compatibility(ExtractQuery("YEAR", x)) = StrftimeQuery("'%Y'", x)
        /\ _fix_sqlite_compatibility(ExtractQuery("MONTH", x)) = StrftimeQuery("'%m'", x)
        /\ validate_sql(StrftimeQuery("'%Y'", x)).ok
        /\ validate_sql(StrftimeQuery("'%m'", x)).ok

\* C16: a generated SELECT over the authorized table whose only violation is
\* EXTRACT(YEAR FROM x) (or MONTH) is rewritten by the repair to
\* strftime('%Y', x) (or '%m'), the validator accepts the rewritten string, so
\* the attempt that produced it returns without a retry and process_query goes
\* on to execute it.
C16_ExtractRepairedThenExecuted ==
    [][/\ (pc = "generate" /\ genCalls = 0) => ExtractRepairedAndAccepted
       /\ \A x \in DateColumns : \A format \in {"'%Y'", "'%m'"} :
            /\ (pc = "generate" /\ sql_query' = StrftimeQuery(format, x)) =>
                  (pc' = "check" /\ retry_count' = retry_count)
            /\ (pc = "check" /\ sql_query = StrftimeQuery(format, x)) =>
                  (pc' = "execute" /\ sql_query' = sql_query)]_vars

\* the first reply held EXTRACT(YEAR FROM game_date); its repaired form is
\* about to be executed after one generation call
C16_RepairedExtractAtExecution ==
    /\ pc = "execute"
    /\ sql_query = StrftimeQuery("'%Y'", "game_date")
    /\ genCalls = 1
    /\ retry_count = 0
    /\ sql_query \in accepted

AggregateFunctions == {"AVG", "SUM", "COUNT", "MIN", "MAX"}

\* keywords that end a GROUP BY clause
ClauseKeywords == {"ORDER", "HAVING", "LIMIT"}

\* an aggregate call lies inside the GROUP BY clause: after GROUP BY and
\* before the keyword of any later clause, on whatever line
AggregateInsideGroupBy(s) ==
    \E g \in 1..Len(s) :
        /\ Upper(s[g]) = "GROUP"
        /\ SkipWs(s, g + 1) <= Len(s)
        /\ Upper(s[SkipWs(s, g + 1)]) = "BY"
        /\ \E a \in (SkipWs(s, g + 1) + 1)..Len(s) :
             /\ Upper(s[a]) \in AggregateFunctions
             /\ SkipWs(s, a + 1) <= Len(s)
             /\ s[SkipWs(s, a + 1)] = "("
             /\ \A k \in (SkipWs(s, g + 1) + 1)..(a - 1) : Upper(s[k]) \notin ClauseKeywords

\* C17: validate_sql gives the aggregate-in-GROUP-BY reason exactly when an
\* aggregate call lies inside the GROUP BY clause (no earlier rule matching):
\* not for an aggregate of a later ORDER BY or HAVING clause, and for an
\* aggregate inside GROUP BY whatever the function and the line breaks.
C17_AggregateRuleExactlyInsideGroupBy ==
    (pc = "validated" /\ MatchingRules(original) \cap (1..6) = {}) =>
        (validation = Rejected("Aggregate functions not allowed in GROUP BY")
            <=> AggregateInsideGroupBy(original))

ComparisonOps == {"=", ">", ">=", "<=", "<"}

\* the predicates column-operator-value of a string
Predicates(s) ==
    {<<s[i], s[i + 1], s[i + 2]>> : i \in {j \in 1..(Len(s) - 2) : s[j + 1] \in ComparisonOps}}

\* Name = '<player>'
IsPlayerEquality(p) == p[1] = "Name" /\ p[2] = "=" /\ p[3] \in QuotedLits

\* C18: the substitution of the empty-result recovery removes a
\* player-equality clause only: every other predicate of the original WHERE
\* (an opponent or threshold predicate before the player clause, say) is
\* still in the relaxed SQL.
C18_RelaxationKeepsOtherPredicates ==
    pc = "relaxed" =>
        \A p \in Predicates(original) : ~IsPlayerEquality(p) => p \in Predicates(sql_query)

\* the repaired string is the opponent-strength template, not a rewrite of
\* the input: it holds the template's own literal, which the input lacks
ReplacedByOpponentTemplate ==
    /\ \E i \in 1..Len(sql_query) : sql_query[i] = "'vs_all_opponents'"
    /\ \A i \in 1..Len(original) : original[i] # "'vs_all_opponents'"

\* C19: the repair replaces the candidate with the opponent-strength template
\* only when the candidate has an aggregate call inside its GROUP BY clause
\* and has the opponent-strength shape; any other candidate is rewritten
\* token by token.
C19_TemplateOnlyForAggregateInGroupBy ==
    (pc = "repaired" /\ ReplacedByOpponentTemplate) =>
        /\ AggregateInsideGroupBy(original)
        /\ \E i \in 1..Len(original) : ContainsOpponentStrength(original[i])

(***************************************************************************)
(* Order of the stages of process_query                                    *)
(***************************************************************************)
\* place of a position of process_query in the order of its stages; the
\* fallback ladder and the empty-result recovery come after the execution
\* of the primary SQL, at the place of narration
Stage(p) ==
    CASE p = "extract"  -> 1
      [] p = "generate" -> 2
      [] p = "check"    -> 3
      [] p = "execute"  -> 4
      [] p \in {"narrate", "fallback", "handle_empty"} -> 5
      [] p = "done"     -> 6

\* C20: in every run the stages come in the order entity extraction, SQL
\* synthesis, validation, execution, narration and the run never goes back to
\* an earlier stage; the primary SQL is executed only after validate_sql
\* accepted it; the narration call of the LLM is made only when some
\* execution of the run has returned at least one row.
C20_StagesInOrder ==
    [][/\ Stage(pc') >= Stage(pc)
       /\ (pc # "extract") => (entities' = entities)
       /\ (Len(executed') > Len(executed) /\ executed'[Len(executed')].kind = "primary") =>
              /\ pc = "execute"
              /\ executed'[Len(executed')].sql \in accepted
       /\ (narrCalls' > narrCalls) =>
              \E k \in 1..Len(executed') : executed'[k].got_rows]_vars

\* a run went through every stage once: one generation call, the primary SQL
\* accepted, executed with rows, narrated
C20_AllStagesOnce ==
    /\ pc = "done"
    /\ envelope.success
    /\ genCalls = 1
    /\ narrCalls = 1
    /\ Len(executed) = 1
    /\ executed[1].kind = "primary"
    /\ executed[1].got_rows
    /\ executed[1].sql \in accepted

(***************************************************************************)
(* Narration failures                                                      *)
(***************************************************************************)
\* the texts _generate_response builds from the rows when the LLM call raises
BasicResponses == {"I found one result: ", "I found n results. Here are the first few: "}

\* C21: a narration call that raises never turns a successful query into a
\* failure: every step that makes the narration call (made only after an
\* execution returned rows) ends the run with success = TRUE, the executed
\* SQL, its rows and a response that is text, either the LLM's narrative or
\* the one built from the rows.
C21_NarrationFailureKeepsSuccess ==
    [][(narrCalls' > narrCalls) =>
          /\ pc' = "done"
          /\ returned' = "envelope"
          /\ envelope'.success
          /\ envelope'.sql_query = executed'[Len(executed')].sql
          /\ executed'[Len(executed')].got_rows
          /\ envelope'.query_results \notin {None, <<>>}
          /\ envelope'.response.text
          /\ \E k \in 1..Len(envelope'.response.parts) :
                envelope'.response.parts[k] \in BasicResponses \cup {"<llm narrative>"}]_vars

\* the narration call raised after the primary SQL returned one row, and the
\* run succeeded with the response built from the row
C21_BasicResponseReturned ==
    /\ pc = "done"
    /\ envelope.success
    /\ ~envelope.fallback_used
    /\ envelope.response = Text(<<"I found one result: ">>)
    /\ envelope.sql_query = sql_query
    /\ Len(envelope.query_results) = 1

\* the cursor and the fuzzy-match cache a request reaches through its locals
CursorOf(r) == objects[requests[r].db_connector].cursor
CacheOf(r) == objects[objects[requests[r].rag_pipeline].entity_extractor].entity_cache

\* C22: two concurrent invocations of process_with_rag_pipeline share no
\* mutable pipeline state: the objects reachable from one request's locals
\* (connector, connection, cursor, generator, extractor and its cache) are
\* reachable from no other request, and a step of one request leaves the
\* other request's locals (its candidate SQL among them) and every object the
\* other request owns exactly as they were.
C22_RequestsShareNoState ==
    [][\A r \in Requests : \A o \in Requests \ {r} :
          /\ Owned(r) \cap Owned(o) = {}
          /\ (Owned(r) \cap Owned(o))' = {}
          /\ (requests'[r] # requests[r]) =>
                /\ requests'[o] = requests[o]
                /\ \A i \in Owned(o) : objects'[i] = objects[i]
                /\ Owned(o)' = Owned(o)]_vars

\* C22 witness: both requests have executed their own candidate on their own
\* open connection and filled their own cache
C22_BothRequestsExecuted ==
    /\ \A r \in Requests :
          /\ requests[r].pc = "close"
          /\ CursorOf(r) # 0
          /\ objects[CursorOf(r)].last = requests[r].sql_query
          /\ CacheOf(r) # {}
    /\ requests[1].sql_query # requests[2].sql_query
    /\ CursorOf(1) # CursorOf(2)

\* C23: every envelope process_query returns with success = true carries a
\* non-null sql_query and non-empty query_results, its sql_query is the string
\* of the last execution and its rows are the rows that execution returned
\* (the first RecoveryRowLimit of them after the empty-result recovery);
\* every envelope with null or empty query_results has success = false.
C23_SuccessCarriesExecutedSqlAndRows ==
    (pc = "done" /\ returned = "envelope") =>
        /\ envelope.success =>
              /\ envelope.sql_query # None
              /\ ~Falsy(envelope.query_results)
              /\ executed # <<>>
              /\ executed[Len(executed)].sql = envelope.sql_query
              /\ executed[Len(executed)].got_rows
              /\ envelope.query_results =
                    IF executed[Len(executed)].kind = "relaxed"
                    THEN FirstRows(executed[Len(executed)].rows)
                    ELSE executed[Len(executed)].rows
        /\ Falsy(envelope.query_results) => ~envelope.success

\* C23 witness: a fallback template's rows returned with the template's SQL,
\* which is not the primary SQL
C23_FallbackRowsWithFallbackSql ==
    /\ pc = "done" /\ returned = "envelope"
    /\ envelope.success /\ envelope.fallback_used
    /\ executed[Len(executed)].kind = "fallback"
    /\ envelope.sql_query = executed[Len(executed)].sql
    /\ envelope.sql_query # sql_query
    /\ Len(envelope.query_results) = MaxRows

\* C24: for every non-empty input, the output of _fix_sqlite_compatibility
\* has as many opening as closing parentheses.
C24_RepairOutputBalanced ==
    (pc = "repaired" /\ original # <<>>) => BalancedParens(sql_query)

\* the executions of one kind process_query has made
Executions(kind) == {i \in 1..Len(executed) : executed[i].kind = kind}

\* the stages process_query still has before it, counted from its position
StagesLeft ==
    CASE pc = "extract" -> 5
      [] pc = "generate" -> 4
      [] pc = "check" -> 3
      [] pc = "execute" -> 2
      [] pc \in {"narrate", "fallback", "handle_empty"} -> 1
      [] OTHER -> 0

\* an upper bound of the steps process_query still takes: the stages left,
\* the retries generate_sql_query may still make and the fallbacks left
StepsLeft ==
    StagesLeft * (MaxRetries + NumFallbacks + 1)
        + (MaxRetries - retry_count) + (NumFallbacks - fbIdx)

\* C25: one invocation of process_query makes a bounded number of data-store
\* executions and always reaches a terminal envelope (every step lowers the
\* bound StepsLeft, which is never negative, and in every state that is not
\* terminal a step can be taken; terminal states hold an envelope): the
\* primary SQL is
\* executed at most once (as the first execution), the fallback template at
\* index k at most once (the ladder moves to the next index or returns), the
\* relaxed recovery query at most once (the recovery returns), and the
\* fallback ladder and the empty-result recovery never both run.
C25_BoundedExecutionsAndTermination ==
    /\ pc # "done" => ENABLED Next
    /\ [][/\ StepsLeft' < StepsLeft
          /\ StepsLeft' >= 0
          /\ pc' # "done" => (ENABLED Next)'
          /\ pc' = "done" => returned' = "envelope"
          /\ Len(executed') <= Len(executed) + 1
          /\ fbIdx' >= fbIdx
          /\ fbIdx' <= NumFallbacks
          /\ Cardinality(Executions("primary")') <= 1
          /\ Cardinality(Executions("fallback")') <= NumFallbacks
          /\ Cardinality(Executions("relaxed")') <= 1
          /\ Executions("fallback")' = {} \/ Executions("relaxed")' = {}
          /\ pc = "fallback" => pc' \in {"fallback", "done"}
          /\ pc = "handle_empty" => pc' = "done"
          /\ pc = "done" => pc' = "done"
          /\ (Len(executed') > Len(executed)) =>
                LET e == executed'[Len(executed')]
                IN  /\ e.kind = "primary" => executed = <<>>
                    /\ e.kind = "fallback" =>
                          /\ pc = "fallback"
                          /\ fbIdx' = fbIdx + 1 \/ pc' = "done"
                    /\ e.kind = "relaxed" => pc = "handle_empty" /\ pc' = "done"]_vars

\* C25 witness: the run with the most executions is over: the primary SQL and
\* all three fallback templates were executed, once each
C25_PrimaryAndThreeFallbacksExecuted ==
    /\ pc = "done" /\ returned = "envelope"
    /\ Len(executed) = 1 + NumFallbacks
    /\ Cardinality(Executions("primary")) = 1
    /\ Cardinality(Executions("fallback")) = NumFallbacks
    /\ fbIdx = NumFallbacks

\* C26: on every path through process_with_rag_pipeline, the paths where
\* LLMManager() or RAGPipeline(...) raises included, the connection the
\* request's DatabaseConnector opened is closed, and conn and cursor are None
\* again, by the time the function returns.
C26_ConnectionClosedOnReturn ==
    \A r \in DOMAIN requests :
        requests[r].pc = "done" =>
            /\ objects[requests[r].db_connector].conn = 0
            /\ objects[requests[r].db_connector].cursor = 0
            /\ \A i \in Owned(r) : objects[i].kind = "Connection" => ~objects[i].open

====
